---- MODULE Spec2Model ----
(***************************************************************************)
(* Model of the Wavefront OBJ importer of the 3d-model-viewer (class Model *)
(* of model_obj.h / model_obj.cpp): the two parsing passes, the vertex     *)
(* welder, the mesh builder, bounds / normalize, the normal and tangent    *)
(* generators and the public life cycle import / normalize /               *)
(* reverseWinding / destroy.                                               *)
(*                                                                         *)
(* Numbers.  A float is modelled by the exact rational it stands for, a    *)
(* pair <<n, d>> in lowest terms with d > 0; <<0, 0>> is a non-finite      *)
(* float (NaN, or an infinity: the model does not tell them apart).  A     *)
(* vector that the code multiplies by 1/sqrtf(s) is kept as the pair       *)
(* [v, s2] that stands for v / sqrt(s2), so no square root is ever taken.  *)
(***************************************************************************)
EXTENDS Integers, Sequences, FiniteSets, TLC

VARIABLES
    model,       \* the Model object: one field per data member of the class
    imports,     \* import() calls that opened their file since construction / destroy()
    normalized,  \* normalize() calls since the last import
    last,        \* what the last import() did (return value and the passes' locals)
    models,      \* the viewer's list of loaded Models (std::vector<Model> models)
    windowText   \* the caption of the viewer's window, as SetWindowText() leaves it

vars == <<model, imports, normalized, last, models, windowText>>

(***************************** bounds *************************************)
MaxImports == 2
MaxNormalize == 1

(***************************** floats *************************************)
Abs(a) == IF a < 0 THEN -a ELSE a

RECURSIVE GCD(_, _)
GCD(a, b) == IF b = 0 THEN a ELSE GCD(b, a % b)

LCM(a, b) == (a \div GCD(a, b)) * b

NaN == <<0, 0>>

IsFinite(a) == a[2] # 0

Rat(n, d) ==
    IF d = 0 THEN NaN
    ELSE LET g == GCD(Abs(n), Abs(d))
             s == IF d < 0 THEN -1 ELSE 1
         IN  <<(s * n) \div g, (s * d) \div g>>

I(n) == <<n, 1>>

RAdd(a, b) ==
    IF ~IsFinite(a) \/ ~IsFinite(b) THEN NaN
    ELSE IF a[2] = b[2] THEN Rat(a[1] + b[1], a[2])
    ELSE Rat(a[1] * b[2] + b[1] * a[2], a[2] * b[2])

RNeg(a) == <<-a[1], a[2]>>

RSub(a, b) == RAdd(a, RNeg(b))

RMul(a, b) ==
    IF ~IsFinite(a) \/ ~IsFinite(b) THEN NaN
    ELSE Rat(a[1] * b[1], a[2] * b[2])

\* a / b; x / 0 is an infinity or NaN
RDiv(a, b) ==
    IF ~IsFinite(a) \/ ~IsFinite(b) \/ b[1] = 0 THEN NaN
    ELSE Rat(a[1] * b[2], a[2] * b[1])

\* a < b; every comparison with a NaN is false
RLt(a, b) == IsFinite(a) /\ IsFinite(b) /\ a[1] * b[2] < b[1] * a[2]

RGt(a, b) == RLt(b, a)

\* std::max(a, b) == (a < b) ? b : a
RMax(a, b) == IF RLt(a, b) THEN b ELSE a

RAbs(a) == <<Abs(a[1]), a[2]>>

Zero == I(0)
One == I(1)

(***************************** vectors ************************************)
Vec3(x, y, z) == <<I(x), I(y), I(z)>>
Zero3 == <<Zero, Zero, Zero>>
Zero2 == <<Zero, Zero>>
NaN3 == <<NaN, NaN, NaN>>

VAdd(a, b) == <<RAdd(a[1], b[1]), RAdd(a[2], b[2]), RAdd(a[3], b[3])>>
VSub(a, b) == <<RSub(a[1], b[1]), RSub(a[2], b[2]), RSub(a[3], b[3])>>
VScale(a, k) == <<RMul(a[1], k), RMul(a[2], k), RMul(a[3], k)>>
VNeg(a) == <<RNeg(a[1]), RNeg(a[2]), RNeg(a[3])>>
Dot(a, b) == RAdd(RAdd(RMul(a[1], b[1]), RMul(a[2], b[2])), RMul(a[3], b[3]))
Cross(a, b) ==
    <<RSub(RMul(a[2], b[3]), RMul(a[3], b[2])),
      RSub(RMul(a[3], b[1]), RMul(a[1], b[3])),
      RSub(RMul(a[1], b[2]), RMul(a[2], b[1]))>>
VFinite(a) == IsFinite(a[1]) /\ IsFinite(a[2]) /\ IsFinite(a[3])

(***************************************************************************)
(* A scaled vector v * (1 / sqrt(s2)).  The representation is canonical    *)
(* (v a primitive integer vector), so that two scaled vectors are the same *)
(* record exactly when they are the same three floats.  1/sqrtf(0) is      *)
(* +inf and 0 * inf is NaN: a zero vector divided by its own length is     *)
(* NaN3.                                                                   *)
(***************************************************************************)
NaNDir == [v |-> NaN3, s2 |-> One]
ZeroDir == [v |-> Zero3, s2 |-> One]

MakeDir(v, s2) ==
    IF ~VFinite(v) \/ ~IsFinite(s2) \/ ~RLt(Zero, s2) THEN NaNDir
    ELSE IF v = Zero3 THEN ZeroDir
    ELSE LET L  == LCM(LCM(v[1][2], v[2][2]), v[3][2])
             k1 == v[1][1] * (L \div v[1][2])
             k2 == v[2][1] * (L \div v[2][2])
             k3 == v[3][1] * (L \div v[3][2])
             g  == GCD(GCD(Abs(k1), Abs(k2)), Abs(k3))
         IN  [v  |-> <<I(k1 \div g), I(k2 \div g), I(k3 \div g)>>,
              s2 |-> RMul(s2, Rat(L * L, g * g))]

\* the three floats as written in a file, or zero-initialised
PlainDir(v) == MakeDir(v, One)

\* v * (1.0f / sqrtf(v . v))
Normalized(v) == MakeDir(v, Dot(v, v))

DirNeg(d) == IF d = NaNDir THEN NaNDir ELSE [d EXCEPT !.v = VNeg(d.v)]

\* the vector has length one
IsUnit(d) == d # NaNDir /\ Dot(d.v, d.v) = d.s2


(***************************** the files **********************************)
(* A file is the sequence of its lines; a line is its first token and what *)
(* follows it.  A face corner "v", "v/vt", "v//vn" or "v/vt/vn" is the     *)
(* triple <<v, vt, vn>> of its references, 0 for one that is not written   *)
(* (no OBJ reference is 0).                                                *)
(***************************************************************************)
V(x, y, z)  == [tok |-> "v", arg |-> Vec3(x, y, z)]
VT(u, w)    == [tok |-> "vt", arg |-> <<I(u), I(w)>>]
VN(x, y, z) == [tok |-> "vn", arg |-> Vec3(x, y, z)]
UseMtl(n)   == [tok |-> "usemtl", arg |-> n]
MtlLib(n)   == [tok |-> "mtllib", arg |-> n]
Other(t)    == [tok |-> t, arg |-> <<>>]
Face(cs)    == [tok |-> "f", arg |-> cs]

\* faces in each of the four forms, from the lists of references
FP(vs)           == Face([i \in DOMAIN vs |-> <<vs[i], 0, 0>>])
FPT(vs, ts)      == Face([i \in DOMAIN vs |-> <<vs[i], ts[i], 0>>])
FPN(vs, ns)      == Face([i \in DOMAIN vs |-> <<vs[i], 0, ns[i]>>])
FPTN(vs, ts, ns) == Face([i \in DOMAIN vs |-> <<vs[i], ts[i], ns[i]>>])

\* the first two characters of a line's first token, as the switch
\* statements of the parsers see them (\0 is written "")
TokenChars ==
    [f |-> <<"f", "">>, v |-> <<"v", "">>, vn |-> <<"v", "n">>, vt |-> <<"v", "t">>,
     vp |-> <<"v", "p">>, mtllib |-> <<"m", "t">>, usemtl |-> <<"u", "s">>,
     g |-> <<"g", "">>, s |-> <<"s", "">>, o |-> <<"o", "">>,
     newmtl |-> <<"n", "e">>, Ns |-> <<"N", "s">>, Ni |-> <<"N", "i">>,
     Ka |-> <<"K", "a">>, Kd |-> <<"K", "d">>, Ks |-> <<"K", "s">>, Ke |-> <<"K", "e">>,
     Tr |-> <<"T", "r">>, d |-> <<"d", "">>, illum |-> <<"i", "l">>,
     map_Kd |-> <<"m", "a">>, map_bump |-> <<"m", "a">>, map_Ka |-> <<"m", "a">>,
     disp |-> <<"d", "i">>]

Char0(t) == TokenChars[t][1]
Char1(t) == TokenChars[t][2]

(*********************** the material libraries ***************************)
Mtl(t, a) == [tok |-> t, arg |-> a]

PlainMtl ==
    <<Mtl("newmtl", "red"), Mtl("Kd", Vec3(1, 0, 0)), Mtl("d", I(1)),
      Mtl("newmtl", "glass"), Mtl("Ks", Vec3(1, 1, 1)), Mtl("d", Rat(1, 2))>>

BumpMtl ==
    <<Mtl("newmtl", "glass"), Mtl("Tr", Rat(1, 2)),
      Mtl("newmtl", "bumpy"), Mtl("map_bump", "bump.png"), Mtl("Tr", Rat(1, 4)),
      Mtl("newmtl", "red"), Mtl("Ns", I(500)), Mtl("illum", 1)>>

\* a library of one material
OneMtl == <<Mtl("newmtl", "matte"), Mtl("d", Rat(3, 4))>>

\* a library without a newmtl line
VoidMtl == <<Mtl("map_Ka", "ambient.png"), Mtl("Ke", Vec3(0, 0, 0))>>

\* a library whose first directive comes before its first newmtl line
EarlyMtl == <<Mtl("Kd", Vec3(1, 0, 0)), Mtl("newmtl", "late")>>

\* a library with directives the loader has no case for, and with illum 1
\* after and before the Ks line of its material
ExtraMtl ==
    <<Mtl("newmtl", "dull"), Mtl("Ks", Vec3(1, 1, 1)), Mtl("illum", 1),
      Mtl("Ke", Vec3(0, 0, 0)), Mtl("map_Ka", "ambient.png"), Mtl("disp", "height.png"),
      Mtl("newmtl", "lit"), Mtl("illum", 1), Mtl("Ks", Vec3(1, 1, 1)),
      Mtl("Ns", I(500)), Mtl("Ni", Rat(3, 2))>>

\* the material files of the directory: fopen() fails on any other name
MtlFiles == [plain |-> PlainMtl, bump |-> BumpMtl, one |-> OneMtl,
             void |-> VoidMtl, early |-> EarlyMtl, extra |-> ExtraMtl]

(*************************** the OBJ files ********************************)
TabPos == <<V(0, 0, 0), V(2, 0, 0), V(2, 2, 0), V(0, 2, 0), V(1, 3, 0)>>
TabNeg == <<V(-4, -4, -1), V(-2, -4, -1), V(-2, -2, -1), V(-4, -2, -1), V(-3, -1, -1)>>
TabYZ  == <<V(0, -1, -1), V(0, 1, -1), V(0, 1, 1), V(0, -1, 1), V(0, 0, 2)>>

TabTex == <<VT(0, 0), VT(1, 0), VT(1, 1), VT(0, 1), VT(2, 2)>>
TabNrm == <<VN(0, 0, 1), VN(0, 1, 0)>>

\* faces on positions only: the triangle, the quad and the pentagon, references
\* from the end of the list, a repeated corner, two triangles on shared positions
PosFiles ==
    { <<TabPos, <<FP(<<1, 2, 3>>)>> >>,
      <<TabPos, <<FP(<<1, 2, 3, 4>>)>> >>,
      <<TabNeg, <<FP(<<1, 2, 3, 4, 5>>)>> >>,
      <<TabPos, <<FP(<<-1, -2, -3>>), V(3, 3, 3), FP(<<-1, -2, -3, 1>>)>> >>,
      <<TabNeg, <<FP(<<-5, -4, -3>>)>> >>,
      <<TabYZ, <<FP(<<1, 1, 2>>), FP(<<3, 4, 5>>)>> >>,
      <<TabYZ, <<FP(<<1, 2, 3>>), FP(<<1, 3, 4>>)>> >> }

\* faces with texture coordinates and normals: a seam, a hard edge, mixed forms
AttrFiles ==
    { <<TabPos, <<FPT(<<1, 2, 3>>, <<1, 2, 3>>), FPT(<<1, 3, 4>>, <<5, 3, 4>>)>> >>,
      <<TabYZ, <<FPN(<<1, 2, 3>>, <<1, 1, 1>>), FPN(<<3, 2, 1>>, <<2, 2, 2>>)>> >>,
      <<TabNeg, <<FPTN(<<-1, -2, -3>>, <<-1, -2, -3>>, <<-1, -1, -1>>),
                  FPT(<<1, 2, 3, 4>>, <<1, 2, 3, 4>>)>> >>,
      <<TabPos, <<FP(<<1, 2, 3, 4>>)>> >> }

\* faces under usemtl, with the material library the file names
MtlObjFiles ==
    { <<"plain", TabPos, <<UseMtl("red"), FP(<<1, 2, 3>>), UseMtl("glass"), FP(<<1, 3, 4>>),
                           UseMtl("red"), FP(<<1, 2, 3, 4>>)>> >>,
      <<"bump", TabPos, <<UseMtl("glass"), FP(<<1, 2, 3>>), UseMtl("red"), FP(<<1, 3, 4>>),
                          UseMtl("bumpy"), FP(<<3, 4, 5>>)>> >>,
      <<"bump", TabYZ, <<FPT(<<1, 2, 3>>, <<1, 2, 3>>), UseMtl("glass"),
                         FPT(<<1, 3, 4>>, <<1, 3, 4>>)>> >>,
      <<"bump", TabYZ, <<UseMtl("nosuch"), FP(<<1, 2, 3>>), FP(<<1, 3, 4>>)>> >>,
      <<"missing", TabPos, <<UseMtl("nosuch"), FP(<<1, 2, 3>>), FP(<<1, 3, 4>>)>> >> }

\* the libraries a file names, in order, with its positions and its faces: a
\* library without materials, a directive before the first newmtl, a smaller
\* library after a larger one, an unknown name after a known one, a library
\* with directives outside the loader's cases
LibObjFiles ==
    { << <<"void">>, TabPos, <<FP(<<1, 2, 3>>)>> >>,
      << <<"early">>, TabPos, <<FP(<<1, 2, 3>>)>> >>,
      << <<"bump", "one">>, TabPos, <<UseMtl("matte"), FP(<<1, 2, 3>>),
                                      UseMtl("bumpy"), FP(<<1, 3, 4>>)>> >>,
      << <<"plain">>, TabPos, <<UseMtl("glass"), FP(<<1, 2, 3>>), UseMtl("nosuch"),
                                FP(<<1, 3, 4>>), FP(<<3, 4, 5>>)>> >>,
      << <<"extra">>, TabPos, <<UseMtl("lit"), FP(<<1, 2, 3>>)>> >> }

ObjFile(name, head, body) ==
    [path |-> name, dir |-> "models/", lines |-> head \o <<Other("g")>> \o body]

ObjFiles ==
    { ObjFile("pos.obj", f[1], f[2]) : f \in PosFiles }
    \cup { ObjFile("attr.obj", f[1] \o TabTex \o TabNrm, f[2]) : f \in AttrFiles }
    \cup { ObjFile("mtl.obj", <<MtlLib(f[1])>> \o f[2] \o TabTex, f[3]) : f \in MtlObjFiles }
    \cup { ObjFile("lib.obj", [i \in DOMAIN f[1] |-> MtlLib(f[1][i])] \o f[2], f[3]) :
             f \in LibObjFiles }
    \cup { ObjFile("empty.obj", <<MtlLib("plain")>> \o TabPos, <<>>) }

\* a path on which fopen() fails
NoFile == [path |-> "nofile.obj", dir |-> "models/", lines |-> <<>>]

(***************************** the Model **********************************)
NewVertex(p, t, n) ==
    [position |-> p, texCoord |-> t, normal |-> PlainDir(n),
     tangent |-> ZeroDir, handedness |-> Zero, bitangent |-> ZeroDir]

\* a value-initialised Material, as std::vector<Material>::resize() adds
NewMaterial ==
    [ambient |-> <<Zero, Zero, Zero, Zero>>, diffuse |-> <<Zero, Zero, Zero, Zero>>,
     specular |-> <<Zero, Zero, Zero, Zero>>, shininess |-> Zero, alpha |-> Zero,
     name |-> "", colorMapFilename |-> "", bumpMapFilename |-> ""]

\* a null Material pointer; a non-null one is the index of its target in m_materials
NullPtr == -1

\* a value-initialised Mesh, as std::vector<Mesh>::resize() adds
NewMesh == [startIndex |-> 0, triangleCount |-> 0, pMaterial |-> NullPtr]

Model ==
    [m_hasPositions |-> FALSE, m_hasTextureCoords |-> FALSE,
     m_hasNormals |-> FALSE, m_hasTangents |-> FALSE,
     m_numberOfVertexCoords |-> 0, m_numberOfTextureCoords |-> 0,
     m_numberOfNormals |-> 0, m_numberOfTriangles |-> 0,
     m_numberOfMaterials |-> 0, m_numberOfMeshes |-> 0,
     m_center |-> Zero3, m_width |-> Zero, m_height |-> Zero,
     m_length |-> Zero, m_radius |-> Zero,
     m_directoryPath |-> "",
     m_meshes |-> <<>>, m_materials |-> <<>>, m_vertexBuffer |-> <<>>,
     m_indexBuffer |-> <<>>, m_attributeBuffer |-> <<>>,
     m_vertexCoords |-> <<>>, m_textureCoords |-> <<>>, m_normals |-> <<>>,
     m_materialCache |-> <<>>, m_vertexCache |-> <<>>]

\* a destroy() without m_indexBuffer.clear()
destroyKeepingIndices(m) == [Model EXCEPT !.m_indexBuffer = m.m_indexBuffer]

\* void Model::destroy()
destroy(m) ==
    [m EXCEPT !.m_hasPositions = FALSE, !.m_hasTextureCoords = FALSE,
              !.m_hasNormals = FALSE, !.m_hasTangents = FALSE,
              !.m_numberOfVertexCoords = 0, !.m_numberOfTextureCoords = 0,
              !.m_numberOfNormals = 0, !.m_numberOfTriangles = 0,
              !.m_numberOfMaterials = 0, !.m_numberOfMeshes = 0,
              !.m_center = Zero3, !.m_width = Zero, !.m_height = Zero,
              !.m_length = Zero, !.m_radius = Zero,
              !.m_directoryPath = "",
              !.m_meshes = <<>>, !.m_materials = <<>>, !.m_vertexBuffer = <<>>,
              !.m_indexBuffer = <<>>, !.m_attributeBuffer = <<>>,
              !.m_vertexCoords = <<>>, !.m_textureCoords = <<>>, !.m_normals = <<>>,
              !.m_materialCache = <<>>, !.m_vertexCache = <<>>]

getNumberOfIndices(m) == m.m_numberOfTriangles * 3
getNumberOfMaterials(m) == m.m_numberOfMaterials
getNumberOfMeshes(m) == m.m_numberOfMeshes
getNumberOfTriangles(m) == m.m_numberOfTriangles
getNumberOfVertices(m) == Len(m.m_vertexBuffer)
hasNormals(m) == m.m_hasNormals

\* a resize() that never cuts, as reserve() followed by writes would behave
ResizeGrowOnly(seq, n, fill) ==
    [i \in 1..(IF n > Len(seq) THEN n ELSE Len(seq)) |-> IF i <= Len(seq) THEN seq[i] ELSE fill]

\* std::vector<T>::resize(n): cut, or fill up with value-initialised elements
Resize(seq, n, fill) == [i \in 1..n |-> IF i <= Len(seq) THEN seq[i] ELSE fill]

\* the finite maps (std::map) are functions on their key sets; <<>> is the empty one
MapHas(map, k) == k \in DOMAIN map
MapPut(map, k, val) == [x \in (DOMAIN map) \cup {k} |-> IF x = k THEN val ELSE map[x]]


(************************** the vertex welder *****************************)
Min(S) == CHOOSE x \in S : \A y \in S : x <= y

\* an addVertex that takes the first vertex of the bucket without comparing
addVertexFirstOfBucket(m, hash, vertex) ==
    IF ~MapHas(m.m_vertexCache, hash)
    THEN LET index == Len(m.m_vertexBuffer)
         IN  [m |-> [m EXCEPT !.m_vertexBuffer = Append(@, vertex),
                              !.m_vertexCache = MapPut(@, hash, <<index>>)],
              index |-> index]
    ELSE [m |-> m, index |-> m.m_vertexCache[hash][1]]

\* an addVertex that pushes the vertex before it looks for a match
addVertexPushFirst(m, hash, vertex) ==
    LET pushed == [m EXCEPT !.m_vertexBuffer = Append(@, vertex)]
        index == Len(m.m_vertexBuffer)
    IN  IF ~MapHas(m.m_vertexCache, hash)
        THEN [m |-> [pushed EXCEPT !.m_vertexCache = MapPut(@, hash, <<index>>)],
              index |-> index]
        ELSE LET vertices == m.m_vertexCache[hash]
                 found == {i \in 1..Len(vertices) : m.m_vertexBuffer[vertices[i] + 1] = vertex}
             IN  IF found # {}
                 THEN [m |-> pushed, index |-> vertices[Min(found)]]
                 ELSE [m |-> [pushed EXCEPT !.m_vertexCache[hash] = Append(@, index)],
                       index |-> index]

\* int Model::addVertex(int hash, const Vertex *pVertex): the Model after the
\* call and the index returned.  memcmp() == 0 is equality of the records.
addVertex(m, hash, vertex) ==
    IF ~MapHas(m.m_vertexCache, hash)
    THEN LET index == Len(m.m_vertexBuffer)
         IN  [m |-> [m EXCEPT !.m_vertexBuffer = Append(@, vertex),
                              !.m_vertexCache = MapPut(@, hash, <<index>>)],
              index |-> index]
    ELSE LET vertices == m.m_vertexCache[hash]
             found == {i \in 1..Len(vertices) : m.m_vertexBuffer[vertices[i] + 1] = vertex}
         IN  IF found # {}
             THEN [m |-> m, index |-> vertices[Min(found)]]
             ELSE LET index == Len(m.m_vertexBuffer)
                  IN  [m |-> [m EXCEPT !.m_vertexBuffer = Append(@, vertex),
                                       !.m_vertexCache[hash] = Append(@, index)],
                       index |-> index]

(***************************************************************************)
(* The second pass runs on a record st: the Model st.m, the position       *)
(* st.pos in the file, the locals of importGeometrySecondPass, and three   *)
(* histories kept for the properties: st.welds, one entry per addVertex    *)
(* call, st.refs, one entry per resolved face reference, and st.triangles, *)
(* the resolved corners of each triangle added.  st.writes has one entry   *)
(* per store into a buffer that the first pass has sized.                  *)
(***************************************************************************)

\* the entry of st.writes for a store of n elements from buffer[at] on
Written(buffer, name, at, n) == [buf |-> name, at |-> at, n |-> n, len |-> Len(buffer)]

\* arr[i] of a std::vector<float>; a read outside the vector is undefined
\* behaviour and yields whatever float g lies there
ReadAt(arr, i, g) == IF 0 <= i /\ i < Len(arr) THEN arr[i + 1] ELSE g

\* m_indexBuffer[slot] = r.index, r being what addVertex(hash, &vertex) has
\* returned on st.m.  The entry of st.welds holds the arguments and the index
\* returned, the size of the vertex buffer before the call and by how much
\* the call has grown it, whether the vertices it held are as they were, and
\* the vertex at the index returned.
StoreIndex(st, r, slot, hash, vertex) ==
    [st EXCEPT !.m = [r.m EXCEPT !.m_indexBuffer[slot + 1] = r.index],
               !.writes = Append(@, Written(st.m.m_indexBuffer, "index", slot, 1)),
               !.welds = Append(@, [hash |-> hash, vertex |-> vertex,
                                    index |-> r.index,
                                    size |-> Len(st.m.m_vertexBuffer),
                                    grown |-> Len(r.m.m_vertexBuffer)
                                              - Len(st.m.m_vertexBuffer),
                                    kept |-> SubSeq(r.m.m_vertexBuffer, 1,
                                                    Len(st.m.m_vertexBuffer))
                                             = st.m.m_vertexBuffer,
                                    stored |-> r.m.m_vertexBuffer[r.index + 1]])]

\* m_indexBuffer[slot] = addVertex(hash, &vertex)
Weld(st, slot, hash, vertex) == StoreIndex(st, addVertex(st.m, hash, vertex), slot, hash, vertex)

\* the Vertex that the addTriangle functions fill in for one corner
CornerVertex(m, v, vt, vn, withTex, withNormal, g) ==
    NewVertex(<<ReadAt(m.m_vertexCoords, v * 3, g),
                ReadAt(m.m_vertexCoords, v * 3 + 1, g),
                ReadAt(m.m_vertexCoords, v * 3 + 2, g)>>,
              IF withTex
              THEN <<ReadAt(m.m_textureCoords, vt * 2, g),
                     ReadAt(m.m_textureCoords, vt * 2 + 1, g)>>
              ELSE Zero2,
              IF withNormal
              THEN <<ReadAt(m.m_normals, vn * 3, g),
                     ReadAt(m.m_normals, vn * 3 + 1, g),
                     ReadAt(m.m_normals, vn * 3 + 2, g)>>
              ELSE Zero3)

\* corner k (0, 1, 2) of a triangle: the Vertex is filled in and welded, and
\* its index stored at m_indexBuffer[index * 3 + k]
WeldCorner(st, index, k, v, vt, vn, withTex, withNormal, g) ==
    Weld(st, index * 3 + k, v[k + 1],
         CornerVertex(st.m, v[k + 1], vt[k + 1], vn[k + 1], withTex, withNormal, g))

\* the body the four addTriangle functions share: v, vt, vn are the 0-based
\* indices of the three corners
addTriangle(st, index, material, v, vt, vn, withTex, withNormal, g) ==
    WeldCorner(
        WeldCorner(
            WeldCorner([st EXCEPT !.m.m_attributeBuffer[index + 1] = material,
                                  !.writes = Append(@, Written(st.m.m_attributeBuffer,
                                                               "attribute", index, 1))],
                       index, 0, v, vt, vn, withTex, withNormal, g),
            index, 1, v, vt, vn, withTex, withNormal, g),
        index, 2, v, vt, vn, withTex, withNormal, g)

addTrianglePos(st, index, material, v, g) ==
    addTriangle(st, index, material, v, <<0, 0, 0>>, <<0, 0, 0>>, FALSE, FALSE, g)

addTrianglePosNormal(st, index, material, v, vn, g) ==
    addTriangle(st, index, material, v, <<0, 0, 0>>, vn, FALSE, TRUE, g)

addTrianglePosTexCoord(st, index, material, v, vt, g) ==
    addTriangle(st, index, material, v, vt, <<0, 0, 0>>, TRUE, FALSE, g)

addTrianglePosTexCoordNormal(st, index, material, v, vt, vn, g) ==
    addTriangle(st, index, material, v, vt, vn, TRUE, TRUE, g)

(************************ the material loader *****************************)
\* a store through pMaterial; through the null pointer it is a fault
Store(ms, field, val) ==
    IF ms.pMaterial = NullPtr THEN [ms EXCEPT !.fault = TRUE]
    ELSE [ms EXCEPT !.materials[ms.pMaterial + 1][field] = val]

Color(rgb) == <<rgb[1], rgb[2], rgb[3], One>>

\* one line of the second loop of importMaterials
MaterialLine(ms, line) ==
    LET c0 == Char0(line.tok)
        c1 == Char1(line.tok)
    IN  CASE c0 = "N" -> Store(ms, "shininess", RDiv(line.arg, I(1000)))
          [] c0 = "K" /\ c1 = "a" -> Store(ms, "ambient", Color(line.arg))
          [] c0 = "K" /\ c1 = "d" -> Store(ms, "diffuse", Color(line.arg))
          [] c0 = "K" /\ c1 = "s" -> Store(ms, "specular", Color(line.arg))
          [] c0 = "T" /\ c1 = "r" -> Store(ms, "alpha", RSub(One, line.arg))
          [] c0 = "d" /\ line.tok = "d" -> Store(ms, "alpha", line.arg)
          \* any other token in d: its argument is a file name, on which "%f"
          \* matches nothing and stores nothing; the name is the next token
          \* read, and begins with a character that has no case
          [] c0 = "d" -> ms
          [] c0 = "i" ->
                IF line.arg = 1
                THEN Store(ms, "specular", <<Zero, Zero, Zero, One>>)
                ELSE ms
          [] c0 = "m" /\ line.tok = "map_Kd" -> Store(ms, "colorMapFilename", line.arg)
          [] c0 = "m" /\ line.tok = "map_bump" -> Store(ms, "bumpMapFilename", line.arg)
          [] c0 = "n" ->
                [ms EXCEPT
                   !.pMaterial = ms.numMaterials,
                   !.materials[ms.numMaterials + 1] =
                       [ambient |-> <<Rat(1, 5), Rat(1, 5), Rat(1, 5), One>>,
                        diffuse |-> <<Rat(4, 5), Rat(4, 5), Rat(4, 5), One>>,
                        specular |-> <<Zero, Zero, Zero, One>>,
                        shininess |-> Zero, alpha |-> One, name |-> line.arg,
                        colorMapFilename |-> "", bumpMapFilename |-> ""],
                   !.cache = MapPut(@, line.arg, ms.numMaterials),
                   !.numMaterials = @ + 1]
          [] OTHER -> ms

\* the end of one pass of the loop that has taken ms to after on the line:
\* ms.steps records for each line its token and whether the line has left
\* the Material table as it was
Stepped(ms, after, line) ==
    [after EXCEPT !.pos = @ + 1,
                  !.steps = Append(@, [tok |-> line.tok,
                                       kept |-> after.materials = ms.materials,
                                       fault |-> after.fault])]

\* while (fscanf(pFile, "%s", buffer) != EOF): ms.pos is the position in the file
RECURSIVE MaterialLines(_, _)
MaterialLines(ms, lines) ==
    IF ms.pos > Len(lines) THEN ms
    ELSE MaterialLines(Stepped(ms, MaterialLine(ms, lines[ms.pos]), lines[ms.pos]), lines)

\* bool Model::importMaterials(const char *pszFilename): the Model after the
\* call, the value returned, whether the call stored through a null pointer,
\* and the record of its lines
importMaterials(m, filename) ==
    IF filename \notin DOMAIN MtlFiles
    THEN [m |-> m, ret |-> FALSE, fault |-> FALSE, steps |-> <<>>]
    ELSE LET lines == MtlFiles[filename]
             numMaterials == Cardinality({i \in 1..Len(lines) : Char0(lines[i].tok) = "n"})
             ms == MaterialLines([materials |-> Resize(m.m_materials, numMaterials, NewMaterial),
                                  cache |-> m.m_materialCache,
                                  pMaterial |-> NullPtr, numMaterials |-> 0,
                                  fault |-> FALSE, pos |-> 1, steps |-> <<>>],
                                 lines)
         IN  [m |-> [m EXCEPT !.m_numberOfMaterials = numMaterials,
                              !.m_materials = ms.materials,
                              !.m_materialCache = ms.cache],
              ret |-> TRUE, fault |-> ms.fault, steps |-> ms.steps]


(**************************** the first pass ******************************)
\* the form of a face, decided on its first corner: strstr(buffer, "//"),
\* then sscanf "%d/%d/%d" == 3, then sscanf "%d/%d" == 2, else "%d"
FaceForm(c) ==
    IF c[2] = 0 /\ c[3] # 0 THEN "v//vn"
    ELSE IF c[2] # 0 /\ c[3] # 0 THEN "v/vt/vn"
    ELSE IF c[2] # 0 THEN "v/vt"
    ELSE "v"

\* while (fscanf(pFile, <form>, ...) > 0) ++m_numberOfTriangles; from corner k on.
\* The corners of a face are all in the form of the first, and the token after
\* the last corner is a keyword or the end of the file, on which fscanf
\* returns 0 or EOF.
RECURSIVE CountFan(_, _)
CountFan(corners, k) ==
    IF k > Len(corners) THEN 0 ELSE 1 + CountFan(corners, k + 1)

\* a first pass that counts a triangle for the third corner twice
FirstPassFaceFromThird(corners) == 1 + CountFan(corners, 3)

\* case 'f' of the first pass: the first corner by "%s", two more by fscanf,
\* one triangle, then one triangle for each further corner
FirstPassFace(corners) == 1 + CountFan(corners, 4)

\* one iteration of the while loop of importGeometryFirstPass; fs.m is the
\* Model, fs.pos the position in the file, fs.fault records a fault in
\* importMaterials, fs.counted the triangles counted face by face, fs.libs
\* the importMaterials calls: the name, the value returned, the fault, the
\* record of the lines
FirstPassLine(fs, line) ==
    LET c0 == Char0(line.tok)
        c1 == Char1(line.tok)
    IN  CASE c0 = "f" ->
                [fs EXCEPT !.m.m_numberOfTriangles = @ + FirstPassFace(line.arg),
                           !.counted = Append(@, FirstPassFace(line.arg))]
          [] c0 = "m" ->
                LET r == importMaterials(fs.m, line.arg)
                IN  [fs EXCEPT !.m = r.m, !.fault = @ \/ r.fault,
                               !.libs = Append(@, [name |-> line.arg, ret |-> r.ret,
                                                   fault |-> r.fault, steps |-> r.steps])]
          [] c0 = "v" /\ c1 = "" -> [fs EXCEPT !.m.m_numberOfVertexCoords = @ + 1]
          [] c0 = "v" /\ c1 = "n" -> [fs EXCEPT !.m.m_numberOfNormals = @ + 1]
          [] c0 = "v" /\ c1 = "t" -> [fs EXCEPT !.m.m_numberOfTextureCoords = @ + 1]
          [] OTHER -> fs

RECURSIVE FirstPassLines(_, _)
FirstPassLines(fs, lines) ==
    IF fs.pos > Len(lines) THEN fs
    ELSE FirstPassLines([FirstPassLine(fs, lines[fs.pos]) EXCEPT !.pos = @ + 1], lines)

DefaultMaterial ==
    [ambient |-> <<Rat(1, 5), Rat(1, 5), Rat(1, 5), One>>,
     diffuse |-> <<Rat(4, 5), Rat(4, 5), Rat(4, 5), One>>,
     specular |-> <<Zero, Zero, Zero, One>>,
     shininess |-> Zero, alpha |-> One, name |-> "default",
     colorMapFilename |-> "", bumpMapFilename |-> ""]

\* the end of importGeometryFirstPass: the flags, and the buffers resized to
\* the counts
SizeBuffers(m) ==
    [m EXCEPT
       !.m_hasPositions = m.m_numberOfVertexCoords > 0,
       !.m_hasNormals = m.m_numberOfNormals > 0,
       !.m_hasTextureCoords = m.m_numberOfTextureCoords > 0,
       !.m_vertexCoords = Resize(@, m.m_numberOfVertexCoords * 3, Zero),
       !.m_textureCoords = Resize(@, m.m_numberOfTextureCoords * 2, Zero),
       !.m_normals = Resize(@, m.m_numberOfNormals * 3, Zero),
       !.m_indexBuffer = Resize(@, m.m_numberOfTriangles * 3, 0),
       !.m_attributeBuffer = Resize(@, m.m_numberOfTriangles, 0)]

\* if (m_numberOfMaterials == 0): the default material is pushed
AddDefaultMaterial(m) ==
    IF m.m_numberOfMaterials = 0
    THEN [m EXCEPT !.m_materials = Append(@, DefaultMaterial),
                   !.m_materialCache = MapPut(@, DefaultMaterial.name, 0)]
    ELSE m

\* void Model::importGeometryFirstPass(FILE *pFile); fs is the record at the
\* end of the file
importGeometryFirstPass(m, lines) ==
    LET fs == FirstPassLines(
                  [m |-> [m EXCEPT !.m_hasTextureCoords = FALSE, !.m_hasNormals = FALSE,
                                   !.m_numberOfVertexCoords = 0,
                                   !.m_numberOfTextureCoords = 0,
                                   !.m_numberOfNormals = 0, !.m_numberOfTriangles = 0],
                   fault |-> FALSE, pos |-> 1, counted |-> <<>>, libs |-> <<>>],
                  lines)
    IN  [fs EXCEPT !.m = AddDefaultMaterial(SizeBuffers(@))]

(**************************** the second pass *****************************)
\* v = (v < 0) ? v + count - 1 : v - 1;
Resolve(r, count) == IF r < 0 THEN r + count - 1 ELSE r - 1

\* the three references of a corner resolved against the counts so far; the
\* references the form does not hold stay 0 - 1 (they are never used)
ResolveCorner(st, c) ==
    <<Resolve(c[1], st.numVertices),
      Resolve(c[2], st.numTexCoords),
      Resolve(c[3], st.numNormals)>>

\* the history entries of one corner
CornerRefs(st, c) ==
    <<[kind |-> "v", ref |-> c[1], count |-> st.numVertices,
       index |-> Resolve(c[1], st.numVertices)]>>
    \o (IF c[2] # 0
        THEN <<[kind |-> "vt", ref |-> c[2], count |-> st.numTexCoords,
                index |-> Resolve(c[2], st.numTexCoords)]>>
        ELSE <<>>)
    \o (IF c[3] # 0
        THEN <<[kind |-> "vn", ref |-> c[3], count |-> st.numNormals,
                index |-> Resolve(c[3], st.numNormals)]>>
        ELSE <<>>)

\* addTriangle<Form>(numTriangles++, activeMaterial, ...) on the resolved
\* corners a, b, c
EmitTriangle(st, form, a, b, c, g) ==
    LET v  == <<a[1], b[1], c[1]>>
        vt == <<a[2], b[2], c[2]>>
        vn == <<a[3], b[3], c[3]>>
        s1 == CASE form = "v//vn" ->
                     addTrianglePosNormal(st, st.numTriangles, st.activeMaterial, v, vn, g)
                [] form = "v/vt/vn" ->
                     addTrianglePosTexCoordNormal(st, st.numTriangles, st.activeMaterial,
                                                  v, vt, vn, g)
                [] form = "v/vt" ->
                     addTrianglePosTexCoord(st, st.numTriangles, st.activeMaterial, v, vt, g)
                [] OTHER ->
                     addTrianglePos(st, st.numTriangles, st.activeMaterial, v, g)
    IN  [s1 EXCEPT !.numTriangles = @ + 1,
                   !.triangles = Append(@, <<a, b, c>>),
                   !.uses = Append(@, st.usemtl)]

\* a loop that moves the anchor along with the trailing pair (a strip)
RECURSIVE FanLoopStrip(_, _, _, _, _, _, _)
FanLoopStrip(st, form, corners, k, first, prev, g) ==
    IF k > Len(corners) THEN st
    ELSE LET this == ResolveCorner(st, corners[k])
         IN  FanLoopStrip(EmitTriangle([st EXCEPT !.refs = @ \o CornerRefs(st, corners[k])],
                                       form, first, prev, this, g),
                          form, corners, k + 1, prev, this, g)

\* the while loop of a face: corner k is read into slot 2, the triangle
\* (first, previous, this) is added, and this corner becomes the previous one
RECURSIVE FanLoop(_, _, _, _, _, _, _)
FanLoop(st, form, corners, k, first, prev, g) ==
    IF k > Len(corners) THEN st
    ELSE LET this == ResolveCorner(st, corners[k])
         IN  FanLoop(EmitTriangle([st EXCEPT !.refs = @ \o CornerRefs(st, corners[k])],
                                  form, first, prev, this, g),
                     form, corners, k + 1, first, this, g)

\* the end of a face that has taken st to s1: st.emitted records the
\* triangles added face by face
EndFace(st, s1) == [s1 EXCEPT !.emitted = Append(@, s1.numTriangles - st.numTriangles)]

\* case 'f' of the second pass
SecondPassFace(st, corners, g) ==
    LET form == FaceForm(corners[1])
        c0 == ResolveCorner(st, corners[1])
        c1 == ResolveCorner(st, corners[2])
        c2 == ResolveCorner(st, corners[3])
        s0 == [st EXCEPT !.refs = @ \o CornerRefs(st, corners[1])
                                    \o CornerRefs(st, corners[2])
                                    \o CornerRefs(st, corners[3])]
    IN  EndFace(st, FanLoop(EmitTriangle(s0, form, c0, c1, c2, g),
                            form, corners, 4, c0, c2, g))

\* a second pass that appends the floats of the line to the array
StoreFloatsAppending(arr, at, vals) == arr \o vals

\* fscanf(pFile, "%f %f ...", &arr[at], ...): the floats of the line stored
\* from arr[at] on
StoreFloats(arr, at, vals) ==
    [i \in 1..Len(arr) |->
        IF at < i /\ i <= at + Len(vals) THEN vals[i - at] ELSE arr[i]]

\* a usemtl that gives an unknown name the next free index
ActiveMaterialNewId(cache, name) ==
    IF MapHas(cache, name) THEN cache[name] ELSE Cardinality(DOMAIN cache)

\* activeMaterial = (iter == m_materialCache.end()) ? 0 : iter->second;
ActiveMaterial(cache, name) == IF MapHas(cache, name) THEN cache[name] ELSE 0

\* one iteration of the while loop of importGeometrySecondPass; st.usemtl is
\* the name of the last usemtl line and whether the lookup held it
SecondPassLine(st, line, g) ==
    LET c0 == Char0(line.tok)
        c1 == Char1(line.tok)
    IN  CASE c0 = "f" -> SecondPassFace(st, line.arg, g)
          [] c0 = "u" ->
                [st EXCEPT !.activeMaterial = ActiveMaterial(st.m.m_materialCache, line.arg),
                           !.usemtl = [name |-> line.arg,
                                       known |-> MapHas(st.m.m_materialCache, line.arg)]]
          [] c0 = "v" /\ c1 = "" ->
                [st EXCEPT !.m.m_vertexCoords = StoreFloats(@, 3 * st.numVertices, line.arg),
                           !.writes = Append(@, Written(st.m.m_vertexCoords, "positions",
                                                        3 * st.numVertices, 3)),
                           !.numVertices = @ + 1]
          [] c0 = "v" /\ c1 = "n" ->
                [st EXCEPT !.m.m_normals = StoreFloats(@, 3 * st.numNormals, line.arg),
                           !.writes = Append(@, Written(st.m.m_normals, "normals",
                                                        3 * st.numNormals, 3)),
                           !.numNormals = @ + 1]
          [] c0 = "v" /\ c1 = "t" ->
                [st EXCEPT !.m.m_textureCoords = StoreFloats(@, 2 * st.numTexCoords, line.arg),
                           !.writes = Append(@, Written(st.m.m_textureCoords, "texCoords",
                                                        2 * st.numTexCoords, 2)),
                           !.numTexCoords = @ + 1]
          [] OTHER -> st

RECURSIVE SecondPassLines(_, _, _)
SecondPassLines(st, lines, g) ==
    IF st.pos > Len(lines) THEN st
    ELSE SecondPassLines([SecondPassLine(st, lines[st.pos], g) EXCEPT !.pos = @ + 1],
                         lines, g)

\* void Model::importGeometrySecondPass(FILE *pFile): the record st at the
\* end of the file.  g is the float that a read outside m_vertexCoords,
\* m_textureCoords or m_normals yields.
importGeometrySecondPass(m, lines, g) ==
    SecondPassLines([m |-> m, pos |-> 1,
                     numVertices |-> 0, numTexCoords |-> 0, numNormals |-> 0,
                     numTriangles |-> 0, activeMaterial |-> 0,
                     usemtl |-> [name |-> "", known |-> TRUE],
                     welds |-> <<>>, refs |-> <<>>, triangles |-> <<>>, emitted |-> <<>>,
                     uses |-> <<>>, writes |-> <<>>],
                    lines, g)


(**************************** the mesh builder ****************************)
\* &m_materials[materialId]
MaterialPtr(materialId) == materialId

\* whether the pointer designates an element of the Material table
IsLive(m, p) == 0 <= p /\ p < Len(m.m_materials)

\* *p: the element for a live pointer; a read through a pointer past the end
\* of the table is undefined behaviour and finds whatever float g lies there
Deref(m, p, g) ==
    IF IsLive(m, p) THEN m.m_materials[p + 1] ELSE [NewMaterial EXCEPT !.alpha = g]

\* a comparison that sorts the most transparent mesh first
MeshCompFuncAscending(m, lhs, rhs, g) ==
    RLt(Deref(m, lhs.pMaterial, g).alpha, Deref(m, rhs.pMaterial, g).alpha)

\* bool MeshCompFunc(const Mesh &lhs, const Mesh &rhs)
MeshCompFunc(m, lhs, rhs, g) ==
    RGt(Deref(m, lhs.pMaterial, g).alpha, Deref(m, rhs.pMaterial, g).alpha)

\* the first loop of buildMeshes: the changes of material id from triangle i on
RECURSIVE CountRuns(_, _, _)
CountRuns(attr, i, materialId) ==
    IF i > Len(attr) THEN 0
    ELSE IF attr[i] # materialId THEN 1 + CountRuns(attr, i + 1, attr[i])
    ELSE CountRuns(attr, i + 1, materialId)

\* a second loop that stores the triangle number as the startIndex
RECURSIVE FillMeshesByTriangle(_, _, _, _, _)
FillMeshesByTriangle(meshes, attr, i, materialId, numMeshes) ==
    IF i > Len(attr) THEN meshes
    ELSE IF attr[i] # materialId
    THEN FillMeshesByTriangle([meshes EXCEPT ![numMeshes + 1] =
                                  [pMaterial |-> MaterialPtr(attr[i]),
                                   startIndex |-> i - 1,
                                   triangleCount |-> @.triangleCount + 1]],
                              attr, i + 1, attr[i], numMeshes + 1)
    ELSE FillMeshesByTriangle([meshes EXCEPT ![numMeshes].triangleCount = @ + 1],
                              attr, i + 1, materialId, numMeshes)

\* the second loop of buildMeshes from triangle i on (i counts from 1, the
\* code's i from 0); numMeshes is the number of meshes begun
RECURSIVE FillMeshes(_, _, _, _, _)
FillMeshes(meshes, attr, i, materialId, numMeshes) ==
    IF i > Len(attr) THEN meshes
    ELSE IF attr[i] # materialId
    THEN FillMeshes([meshes EXCEPT ![numMeshes + 1] =
                        [pMaterial |-> MaterialPtr(attr[i]),
                         startIndex |-> (i - 1) * 3,
                         triangleCount |-> @.triangleCount + 1]],
                    attr, i + 1, attr[i], numMeshes + 1)
    ELSE FillMeshes([meshes EXCEPT ![numMeshes].triangleCount = @ + 1],
                    attr, i + 1, materialId, numMeshes)

\* std::sort(first, last, comp) on a short range is an insertion sort: each
\* element moves left past the elements it compares less than
RECURSIVE InsertSorted(_, _, _, _)
InsertSorted(m, sorted, x, g) ==
    IF sorted = <<>> THEN <<x>>
    ELSE IF MeshCompFunc(m, x, sorted[Len(sorted)], g)
    THEN Append(InsertSorted(m, SubSeq(sorted, 1, Len(sorted) - 1), x, g),
                sorted[Len(sorted)])
    ELSE Append(sorted, x)

RECURSIVE SortMeshes(_, _, _, _)
SortMeshes(m, meshes, n, g) ==
    IF n = 0 THEN <<>>
    ELSE InsertSorted(m, SortMeshes(m, meshes, n - 1, g), meshes[n], g)

\* void Model::buildMeshes(); g is the float that a read through a Material
\* pointer past the end of m_materials yields
buildMeshes(m, g) ==
    LET numMeshes == CountRuns(m.m_attributeBuffer, 1, -1)
        meshes == FillMeshes(Resize(m.m_meshes, numMeshes, NewMesh),
                             m.m_attributeBuffer, 1, -1, 0)
    IN  [m EXCEPT !.m_numberOfMeshes = numMeshes,
                  !.m_meshes = SortMeshes(m, meshes, Len(meshes), g)]

(******************************* bounds ***********************************)
(* std::numeric_limits<float>::min() is the smallest positive normal       *)
(* float, 2^-126.  Every coordinate of the model is 0 or at least 2^-20 in *)
(* magnitude, so x > 2^-126 exactly when x > 0, and 2^-126 added to a      *)
(* coordinate rounds to the coordinate: the model writes it 0.  FloatMax   *)
(* stands for std::numeric_limits<float>::max(), above every coordinate.   *)
(***************************************************************************)
FloatMin == I(0)
FloatMax == I(1000000)

RECURSIVE AxisMax(_, _, _, _)
AxisMax(vb, axis, i, xMax) ==
    IF i > Len(vb) THEN xMax
    ELSE AxisMax(vb, axis, i + 1,
                 IF RGt(vb[i].position[axis], xMax) THEN vb[i].position[axis] ELSE xMax)

RECURSIVE AxisMin(_, _, _, _)
AxisMin(vb, axis, i, xMin) ==
    IF i > Len(vb) THEN xMin
    ELSE AxisMin(vb, axis, i + 1,
                 IF RLt(vb[i].position[axis], xMin) THEN vb[i].position[axis] ELSE xMin)

Half(a) == RDiv(a, I(2))

\* void Model::bounds(float center[3], float &width, float &height,
\*                    float &length, float &radius) const
bounds(m) ==
    LET vb == m.m_vertexBuffer
        xMax == AxisMax(vb, 1, 1, FloatMin)
        yMax == AxisMax(vb, 2, 1, FloatMin)
        zMax == AxisMax(vb, 3, 1, FloatMin)
        xMin == AxisMin(vb, 1, 1, FloatMax)
        yMin == AxisMin(vb, 2, 1, FloatMax)
        zMin == AxisMin(vb, 3, 1, FloatMax)
        width == RSub(xMax, xMin)
        height == RSub(yMax, yMin)
        length == RSub(zMax, zMin)
    IN  [center |-> <<Half(RAdd(xMin, xMax)), Half(RAdd(yMin, yMax)), Half(RAdd(zMin, zMax))>>,
         width |-> width, height |-> height, length |-> length,
         radius |-> RMax(RMax(width, height), length)]

\* bounds(m_center, m_width, m_height, m_length, m_radius)
StoreBounds(m) ==
    LET b == bounds(m)
    IN  [m EXCEPT !.m_center = b.center, !.m_width = b.width, !.m_height = b.height,
                  !.m_length = b.length, !.m_radius = b.radius]

\* a scale that multiplies the normal of each vertex along with its position
scaleWithNormals(m, scaleFactor, offset) ==
    [m EXCEPT !.m_vertexBuffer =
        [i \in 1..Len(@) |->
            [@[i] EXCEPT !.position = VScale(VAdd(@, offset), scaleFactor),
                         !.normal = IF @ = NaNDir THEN NaNDir
                                    ELSE [@ EXCEPT !.v = VScale(@, scaleFactor)]]]]

\* void Model::scale(float scaleFactor, float offset[3])
scale(m, scaleFactor, offset) ==
    [m EXCEPT !.m_vertexBuffer =
        [i \in 1..Len(@) |->
            [@[i] EXCEPT !.position = VScale(VAdd(@, offset), scaleFactor)]]]

\* void Model::normalize(float scaleTo, bool center)
normalize(m, scaleTo, center) ==
    LET b == bounds(m)
        scalingFactor == RDiv(scaleTo, b.radius)
        offset == IF center THEN VNeg(b.center) ELSE Zero3
    IN  StoreBounds(scale(m, scalingFactor, offset))

\* void Model::reverseWinding()
reverseWinding(m) ==
    [m EXCEPT
       !.m_indexBuffer =
           [i \in 1..Len(@) |->
               IF i % 3 = 2 THEN @[i + 1] ELSE IF i % 3 = 0 THEN @[i - 1] ELSE @[i]],
       !.m_vertexBuffer =
           [i \in 1..Len(@) |->
               [@[i] EXCEPT !.normal = DirNeg(@), !.tangent = DirNeg(@)]]]


(************************* the normal generator ***************************)
\* acc[p] += n for the three corners of a triangle, one after the other
AddAt(acc, tri, n) ==
    LET a1 == [acc EXCEPT ![tri[1] + 1] = VAdd(@, n)]
        a2 == [a1 EXCEPT ![tri[2] + 1] = VAdd(@, n)]
    IN  [a2 EXCEPT ![tri[3] + 1] = VAdd(@, n)]

\* pTriangle = &m_indexBuffer[i * 3]
Triangle(m, i) == <<m.m_indexBuffer[i * 3 + 1], m.m_indexBuffer[i * 3 + 2],
                    m.m_indexBuffer[i * 3 + 3]>>

Edge(m, tri, k) == VSub(m.m_vertexBuffer[tri[k] + 1].position,
                        m.m_vertexBuffer[tri[1] + 1].position)

\* the loop over the triangles of generateNormals, from triangle i on: the
\* cross product of the two edges is added to the normals of the three corners
RECURSIVE AccumulateNormals(_, _, _)
AccumulateNormals(m, i, acc) ==
    IF i >= getNumberOfTriangles(m) THEN acc
    ELSE LET tri == Triangle(m, i)
         IN  AccumulateNormals(m, i + 1,
                               AddAt(acc, tri, Cross(Edge(m, tri, 2), Edge(m, tri, 3))))

\* void Model::generateNormals()
generateNormals(m) ==
    LET acc == AccumulateNormals(m, 0, [i \in 1..getNumberOfVertices(m) |-> Zero3])
    IN  [m EXCEPT !.m_vertexBuffer =
                      [i \in 1..Len(@) |-> [@[i] EXCEPT !.normal = Normalized(acc[i])]],
                  !.m_hasNormals = TRUE]

(************************* the tangent generator **************************)
\* 1e-6f
Epsilon == Rat(1, 1000000)

TexEdge(m, tri, k) ==
    LET a == m.m_vertexBuffer[tri[k] + 1].texCoord
        b == m.m_vertexBuffer[tri[1] + 1].texCoord
    IN  <<RSub(a[1], b[1]), RSub(a[2], b[2])>>

\* det = texEdge1[0] * texEdge2[1] - texEdge2[0] * texEdge1[1]
UVDet(m, tri) ==
    LET texEdge1 == TexEdge(m, tri, 2)
        texEdge2 == TexEdge(m, tri, 3)
    IN  RSub(RMul(texEdge1[1], texEdge2[2]), RMul(texEdge2[1], texEdge1[2]))

\* the tangent and the bitangent of one triangle
TriangleBasis(m, tri) ==
    LET edge1 == Edge(m, tri, 2)
        edge2 == Edge(m, tri, 3)
        texEdge1 == TexEdge(m, tri, 2)
        texEdge2 == TexEdge(m, tri, 3)
        det == UVDet(m, tri)
    IN  IF RLt(RAbs(det), Epsilon)
        THEN [tangent |-> Vec3(1, 0, 0), bitangent |-> Vec3(0, 1, 0)]
        ELSE LET inv == RDiv(One, det)
             IN  [tangent |->
                      VScale(VSub(VScale(edge1, texEdge2[2]), VScale(edge2, texEdge1[2])), inv),
                  bitangent |->
                      VScale(VAdd(VScale(edge1, RNeg(texEdge2[1])), VScale(edge2, texEdge1[1])),
                             inv)]

\* the loop over the triangles of generateTangents, from triangle i on
RECURSIVE AccumulateTangents(_, _, _)
AccumulateTangents(m, i, acc) ==
    IF i >= getNumberOfTriangles(m) THEN acc
    ELSE LET tri == Triangle(m, i)
             tb == TriangleBasis(m, tri)
         IN  AccumulateTangents(m, i + 1,
                                [t |-> AddAt(acc.t, tri, tb.tangent),
                                 b |-> AddAt(acc.b, tri, tb.bitangent)])

\* the last loop of generateTangents on one vertex: t and b are the sums of
\* the tangents and bitangents of its triangles.  The normal is vn/sqrt(s2),
\* so normal * (normal . t) is vn * (vn . t) / s2.
OrthogonalizeVertex(vertex, t, b) ==
    LET n == vertex.normal
        ortho == IF n = NaNDir THEN NaN3
                 ELSE VSub(t, VScale(n.v, RDiv(Dot(n.v, t), n.s2)))
        tangent == Normalized(ortho)
        cross == IF n = NaNDir \/ tangent = NaNDir THEN NaN3 ELSE Cross(n.v, tangent.v)
        bDotB == Dot(cross, b)
    IN  [vertex EXCEPT
           !.tangent = tangent,
           !.handedness = IF RLt(bDotB, Zero) THEN One ELSE RNeg(One),
           !.bitangent = IF cross = NaN3 THEN NaNDir ELSE MakeDir(cross, RMul(n.s2, tangent.s2))]

\* void Model::generateTangents()
generateTangents(m) ==
    LET zero == [i \in 1..getNumberOfVertices(m) |-> Zero3]
        acc == AccumulateTangents(m, 0, [t |-> zero, b |-> zero])
    IN  [m EXCEPT !.m_vertexBuffer =
                      [i \in 1..Len(@) |-> OrthogonalizeVertex(@[i], acc.t[i], acc.b[i])],
                  !.m_hasTangents = TRUE]

(******************************* import ***********************************)
\* the lengths of the buffers of the Model
Sizes(m) ==
    [index |-> Len(m.m_indexBuffer), attribute |-> Len(m.m_attributeBuffer),
     positions |-> Len(m.m_vertexCoords), texCoords |-> Len(m.m_textureCoords),
     normals |-> Len(m.m_normals), vertices |-> Len(m.m_vertexBuffer)]

\* the normals of the vertex buffer, vertex by vertex
NormalsOf(m) == [i \in DOMAIN m.m_vertexBuffer |-> m.m_vertexBuffer[i].normal]

\* the loop of import over the materials: one of them has a bump map
HasBumpMap(m) ==
    \E i \in 1..m.m_numberOfMaterials : m.m_materials[i].bumpMapFilename # ""

\* an import that rebuilds the normals whatever the file holds
NormalsAlways(run, rebuildNormals) ==
    [run EXCEPT !.m = generateNormals(@), !.ranNormals = TRUE]

\* if (rebuildNormals) generateNormals(); else if (!hasNormals()) generateNormals();
\* run.m is the Model, run.ranNormals and run.ranTangents record the calls,
\* run.tangentCalls counts the generateTangents() calls, run.tangentNormals
\* holds the normals of the vertex buffer at the last of them
Normals(run, rebuildNormals) ==
    IF rebuildNormals \/ ~hasNormals(run.m)
    THEN [run EXCEPT !.m = generateNormals(@), !.ranNormals = TRUE]
    ELSE run

\* for (int i = 0; i < m_numberOfMaterials; ++i) from material i on:
\* generateTangents() and break at the first material with a bump map
RECURSIVE TangentsFrom(_, _)
TangentsFrom(run, i) ==
    IF i >= run.m.m_numberOfMaterials THEN run
    ELSE IF run.m.m_materials[i + 1].bumpMapFilename # ""
    THEN [run EXCEPT !.m = generateTangents(@), !.ranTangents = TRUE,
                     !.tangentCalls = @ + 1, !.tangentNormals = NormalsOf(run.m)]
    ELSE TangentsFrom(run, i + 1)

\* the loop of import over the materials: generateTangents() once if one of
\* them has a bump map
Tangents(run) == TangentsFrom(run, 0)

\* what import leaves: the Model, and the history of the call.  p1 is the
\* end of the first pass, st the end of the second, run the end of import.
ImportResult(p1, st, run, fresh, file, rebuildNormals, g) ==
    [m |-> run.m,
     last |-> [ret |-> TRUE, path |-> file.path, file |-> file, g |-> g, fresh |-> fresh,
               rebuildNormals |-> rebuildNormals,
               secondPassNormals |-> NormalsOf(st.m),
               firstPassSizes |-> Sizes(p1.m), secondPassSizes |-> Sizes(st.m),
               writes |-> st.writes,
               fault |-> p1.fault,
               firstPassTriangles |-> p1.m.m_numberOfTriangles,
               numTriangles |-> st.numTriangles,
               faces |-> SelectSeq(file.lines, LAMBDA l : l.tok = "f"),
               counted |-> p1.counted, emitted |-> st.emitted,
               refs |-> st.refs, welds |-> st.welds, triangles |-> st.triangles,
               uses |-> st.uses, libs |-> p1.libs,
               ranNormals |-> run.ranNormals, ranTangents |-> run.ranTangents,
               tangentCalls |-> run.tangentCalls, tangentNormals |-> run.tangentNormals]]

\* the Model as import holds it after buildMeshes() and bounds()
Built(st, g) ==
    [m |-> StoreBounds(buildMeshes(st.m, g)), ranNormals |-> FALSE, ranTangents |-> FALSE,
     tangentCalls |-> 0, tangentNormals |-> <<>>]

\* an import that generates the tangents before it settles the normals
AfterSecondPassTangentsFirst(p1, st, fresh, file, rebuildNormals, g) ==
    ImportResult(p1, st, Normals(Tangents(Built(st, g)), rebuildNormals),
                 fresh, file, rebuildNormals, g)

\* import from buildMeshes() on
AfterSecondPass(p1, st, fresh, file, rebuildNormals, g) ==
    ImportResult(p1, st, Tangents(Normals(Built(st, g), rebuildNormals)),
                 fresh, file, rebuildNormals, g)

\* import from rewind(pFile) on
AfterFirstPass(p1, fresh, file, rebuildNormals, g) ==
    AfterSecondPass(p1, importGeometrySecondPass(p1.m, file.lines, g),
                    fresh, file, rebuildNormals, g)

\* bool Model::import(const char *pszFilename, bool rebuildNormals) on a file
\* that fopen() opens: the Model after the call and the history of the call
import(m, file, rebuildNormals, g) ==
    AfterFirstPass(importGeometryFirstPass([m EXCEPT !.m_directoryPath = file.dir],
                                           file.lines),
                   m = Model, file, rebuildNormals, g)

\* no import() call yet
NoImport ==
    [ret |-> FALSE, path |-> "", file |-> NoFile, g |-> Zero, fresh |-> TRUE, fault |-> FALSE,
     rebuildNormals |-> FALSE, secondPassNormals |-> <<>>,
     firstPassSizes |-> Sizes(Model), secondPassSizes |-> Sizes(Model), writes |-> <<>>,
     firstPassTriangles |-> 0, numTriangles |-> 0, faces |-> <<>>,
     counted |-> <<>>, emitted |-> <<>>,
     refs |-> <<>>, welds |-> <<>>, triangles |-> <<>>, uses |-> <<>>, libs |-> <<>>,
     ranNormals |-> FALSE, ranTangents |-> FALSE, tangentCalls |-> 0, tangentNormals |-> <<>>]

\* whether the second pass reads outside one of its three float arrays on
\* this file: a resolved index below 0 or past the elements the file holds
LinesOf(file, t) == SelectSeq(file.lines, LAMBDA l : l.tok = t)

RECURSIVE ReadsOutside(_, _, _)
ReadsOutside(file, i, counts) ==
    IF i > Len(file.lines) THEN FALSE
    ELSE LET l == file.lines[i]
             total == <<Len(LinesOf(file, "v")), Len(LinesOf(file, "vt")),
                        Len(LinesOf(file, "vn"))>>
         IN  CASE l.tok = "f" ->
                    (\E k \in DOMAIN l.arg : \E a \in 1..3 :
                        /\ l.arg[k][a] # 0
                        /\ LET x == Resolve(l.arg[k][a], counts[a])
                           IN  x < 0 \/ x >= total[a])
                    \/ ReadsOutside(file, i + 1, counts)
               [] l.tok = "v" -> ReadsOutside(file, i + 1, [counts EXCEPT ![1] = @ + 1])
               [] l.tok = "vt" -> ReadsOutside(file, i + 1, [counts EXCEPT ![2] = @ + 1])
               [] l.tok = "vn" -> ReadsOutside(file, i + 1, [counts EXCEPT ![3] = @ + 1])
               [] OTHER -> ReadsOutside(file, i + 1, counts)

\* the floats that a read outside the Model's arrays can yield on this file:
\* outside the float arrays, or, when a later library of the file cuts the
\* Material table below an index the lookup still holds, outside the table
Garbage(file) ==
    IF ReadsOutside(file, 1, <<0, 0, 0>>) \/ Len(LinesOf(file, "mtllib")) > 1
    THEN {I(0), I(7)} ELSE {I(0)}

\* the values of rebuildNormals that matter for the file: without vn lines
\* hasNormals() is false and import calls generateNormals() for either value
RebuildChoices(file) == IF LinesOf(file, "vn") = <<>> THEN {FALSE} ELSE BOOLEAN

(***************************** the actions ********************************)
\* #define APP_TITLE "OpenGL Model Viewer"
APP_TITLE == "OpenGL Model Viewer"

\* the caption of the window without a model, and with the model of a file
NoCaption == <<APP_TITLE>>
Caption(file) == <<APP_TITLE, " - ", file.path>>

Init ==
    /\ model = Model
    /\ imports = 0
    /\ normalized = 0
    /\ last = NoImport
    /\ models = <<>>
    /\ windowText = NoCaption

\* the history of an import() that has stored through the null pointer in
\* importMaterials: the access violation ends the process inside the call
Faulted(m, file, libs) ==
    [NoImport EXCEPT !.path = file.path, !.file = file, !.fresh = m = Model,
                     !.fault = TRUE, !.libs = libs]

\* model.import(path, rebuildNormals) on a file that opens.  After a fault
\* no operation runs any more; the Model is kept as it was before the call.
Import ==
    /\ ~last.fault
    /\ imports < MaxImports
    /\ \E file \in ObjFiles :
         \E rebuildNormals \in RebuildChoices(file), g \in Garbage(file) :
            \E r \in {import(model, file, rebuildNormals, g)} :
                IF r.last.fault
                THEN /\ model' = model
                     /\ last' = Faulted(model, file, r.last.libs)
                ELSE /\ model' = r.m
                     /\ last' = r.last
    /\ imports' = imports + 1
    /\ normalized' = 0
    /\ UNCHANGED <<models, windowText>>

\* an import() that clears m_directoryPath before it tests the FILE pointer
ImportNoFileClearingPath ==
    /\ ~last.fault
    /\ last.path # NoFile.path
    /\ last' = [NoImport EXCEPT !.path = NoFile.path, !.fresh = model = Model]
    /\ model' = [model EXCEPT !.m_directoryPath = ""]
    /\ UNCHANGED <<imports, normalized, models, windowText>>

\* model.import(path) on a path that fopen() cannot open: return false
ImportNoFile ==
    /\ ~last.fault
    /\ last.path # NoFile.path
    /\ last' = [NoImport EXCEPT !.path = NoFile.path, !.fresh = model = Model]
    /\ UNCHANGED <<model, imports, normalized, models, windowText>>

\* model.normalize(scaleTo, center)
NormalizeCall(scaleTo, center) ==
    /\ ~last.fault
    /\ normalized < MaxNormalize
    /\ model' = normalize(model, scaleTo, center)
    /\ normalized' = normalized + 1
    /\ UNCHANGED <<imports, last, models, windowText>>

\* the call with the default arguments, and a call that scales without centring
Normalize == \E p \in {<<I(1), TRUE>>, <<I(2), FALSE>>} : NormalizeCall(p[1], p[2])

\* model.reverseWinding()
ReverseWinding ==
    /\ ~last.fault
    /\ model' = reverseWinding(model)
    /\ UNCHANGED <<imports, normalized, last, models, windowText>>

\* model.destroy()
Destroy ==
    /\ ~last.fault
    /\ model' = destroy(model)
    /\ imports' = 0
    /\ normalized' = 0
    /\ last' = NoImport
    /\ UNCHANGED <<models, windowText>>

Next == Import \/ ImportNoFile \/ Normalize \/ ReverseWinding \/ Destroy

Spec == Init /\ [][Next]_vars

(***************************** the viewer *********************************)
(* The viewer keeps the Models it has loaded in the global list models.    *)
(* LoadModel imports into a local Model and pushes a copy of it onto the   *)
(* list; the local is destroyed when LoadModel returns.  The copy is       *)
(* memberwise: each vector is copied into storage of its own, each         *)
(* Mesh::pMaterial is copied as the address it is.  A Material pointer is  *)
(* an address: the Material table of the Model that import() runs on       *)
(* starts at address 0 (MaterialPtr), the table of models[k] at            *)
(* TableAt(k).                                                             *)
(***************************************************************************)
MaxModels == 2

\* std::vector<Material>: the vectors of distinct Models own disjoint storage,
\* a table's length apart at least (no table is longer than the longest library)
TableAt(k) == k * (Len(BumpMtl) + 1)

\* whether the pointer designates an element of the Material table of models[k]
LiveIn(k, p) == TableAt(k) <= p /\ p < TableAt(k) + Len(models[k].m_materials)

\* void LoadModel(const char *pszFilename) on a file that opens: import,
\* normalize(), models.push_back(model), SetWindowText().  It is what a
\* dropped file and the command line call, and what File > Open calls after
\* UnloadModel.
LoadModel ==
    /\ ~last.fault
    /\ Len(models) < MaxModels
    /\ \E file \in ObjFiles :
         \E g \in Garbage(file) :
            \E r \in {import(Model, file, FALSE, g)} :
                IF r.last.fault
                THEN /\ last' = Faulted(Model, file, r.last.libs)
                     /\ models' = models
                     /\ windowText' = windowText
                ELSE /\ last' = r.last
                     /\ models' = Append(models, normalize(r.m, One, TRUE))
                     /\ windowText' = Caption(file)
    /\ UNCHANGED <<model, imports, normalized>>

\* LoadModel on a path that fopen() cannot open: import returns false and
\* LoadModel throws before it reaches the list
LoadModelNoFile ==
    /\ ~last.fault
    /\ last' = [NoImport EXCEPT !.path = NoFile.path]
    /\ UNCHANGED <<model, imports, normalized, models, windowText>>

\* void UnloadModel(): each pass of the loop copies models[it] into a local
\* Model and destroys that copy; the list and its elements stay as they are.
\* SetWindowText(g_hWnd, APP_TITLE) ends the call.  It is what File > Close,
\* File > Open before its LoadModel, and the cleanup call.
UnloadModel ==
    /\ ~last.fault
    /\ \A it \in DOMAIN models : destroy(models[it]) = Model
    /\ windowText' = NoCaption
    /\ UNCHANGED <<model, imports, normalized, last, models>>

ViewerNext == LoadModel \/ LoadModelNoFile \/ UnloadModel

ViewerSpec == Init /\ [][ViewerNext]_vars

(************************* the claims and their checks ********************)
\* a face line of the file whose corners are all in the form of the first
ValidFace(f) ==
    /\ Len(f.arg) >= 3
    /\ \A k \in DOMAIN f.arg : FaceForm(f.arg[k]) = FaceForm(f.arg[1])

\* C1: for a valid OBJ file the triangle count of the first pass
\* (m_numberOfTriangles) equals the number of triangles the second pass adds
\* (numTriangles at the end of the file), and a face of k corners accounts
\* for exactly k - 2 triangles in each pass.
C1_PassesAgree ==
    (last.ret /\ \A i \in DOMAIN last.faces : ValidFace(last.faces[i]))
    => /\ last.firstPassTriangles = last.numTriangles
       /\ Len(last.counted) = Len(last.faces)
       /\ Len(last.emitted) = Len(last.faces)
       /\ \A i \in DOMAIN last.faces :
            /\ last.counted[i] = Len(last.faces[i].arg) - 2
            /\ last.emitted[i] = Len(last.faces[i].arg) - 2

\* an import of a file that holds a pentagon: three triangles in each pass
C1_Witness ==
    /\ last.ret
    /\ \E i \in DOMAIN last.faces : Len(last.faces[i].arg) = 5
    /\ last.firstPassTriangles = 3
    /\ last.numTriangles = 3

\* C2: in every reachable state the index buffer holds 3 * getNumberOfTriangles()
\* entries and the attribute buffer getNumberOfTriangles() entries.
C2_BufferLengths ==
    /\ Len(model.m_indexBuffer) = 3 * getNumberOfTriangles(model)
    /\ Len(model.m_indexBuffer) = getNumberOfIndices(model)
    /\ Len(model.m_attributeBuffer) = getNumberOfTriangles(model)

\* a second import, of a file of one triangle, into a Model that held more,
\* followed by normalize
C2_Witness ==
    /\ imports = 2
    /\ normalized = 1
    /\ last.ret
    /\ ~last.fresh
    /\ getNumberOfTriangles(model) = 1
    /\ Len(model.m_indexBuffer) = 3
    /\ Len(model.m_vertexBuffer) > 3

\* C3: every value of the index buffer is at least 0 and less than
\* getNumberOfVertices(), in every reachable state: after every successful
\* import, and after normalize and reverseWinding as well.
C3_IndicesInRange ==
    \A i \in DOMAIN model.m_indexBuffer :
        /\ 0 <= model.m_indexBuffer[i]
        /\ model.m_indexBuffer[i] < getNumberOfVertices(model)

\* a successful import of two triangles followed by normalize, the last
\* index being the last vertex
C3_Witness ==
    /\ last.ret
    /\ normalized = 1
    /\ getNumberOfTriangles(model) = 2
    /\ \E i \in DOMAIN model.m_indexBuffer :
          model.m_indexBuffer[i] = getNumberOfVertices(model) - 1

\* C4: in the second pass a negative reference r resolves to the 0-based index
\* count_so_far + r (-1 is the last element parsed), and a positive reference
\* p to p - 1, for positions, texture coordinates and normals alike.
C4_Resolve ==
    \A i \in DOMAIN last.refs :
        last.refs[i].index = IF last.refs[i].ref < 0
                             THEN last.refs[i].count + last.refs[i].ref
                             ELSE last.refs[i].ref - 1

\* a face whose reference -1 is resolved after five positions were parsed
C4_Witness ==
    \E i \in DOMAIN last.refs :
        /\ last.refs[i].kind = "v"
        /\ last.refs[i].ref = -1
        /\ last.refs[i].count = 5
        /\ last.refs[i].index = 3

\* the addVertex calls of the last import, in order
Welds == last.welds

\* an earlier call of the import with the same bucket and the same attributes
Repeat(j) ==
    \E i \in 1..(j - 1) : Welds[i].hash = Welds[j].hash /\ Welds[i].vertex = Welds[j].vertex

\* C5: in the second pass two corners on the same source position get the same
\* index from addVertex exactly when their vertices (position, texture
\* coordinate, normal) are identical; a repeat of a combination does not grow
\* the vertex buffer; a new combination appends exactly one vertex, which gets
\* the next index, and leaves the earlier vertices as they were.
C5_Welding ==
    \A j \in DOMAIN Welds :
        LET w == Welds[j]
        IN  /\ \A i \in 1..(j - 1) :
                  Welds[i].hash = w.hash
                  => (Welds[i].index = w.index <=> Welds[i].vertex = w.vertex)
            /\ Repeat(j) => w.grown = 0
            /\ w.grown \in {0, 1}
            /\ w.grown = 1 => w.index = w.size
            /\ w.grown = 0 => w.index < w.size
            /\ w.kept
            /\ w.stored = w.vertex
            /\ (last.fresh /\ ~Repeat(j)) => w.grown = 1

\* an import with a seam: a position used a second time with the same
\* attributes, which is welded, and with other attributes, which is appended
C5_Witness ==
    /\ \E i, j \in DOMAIN Welds :
          /\ i < j
          /\ Welds[i].hash = Welds[j].hash
          /\ Welds[j].vertex = Welds[i].vertex
          /\ Welds[j].index = Welds[i].index
          /\ Welds[j].grown = 0
    /\ \E i, k \in DOMAIN Welds :
          /\ i < k
          /\ Welds[i].hash = Welds[k].hash
          /\ Welds[k].vertex # Welds[i].vertex
          /\ Welds[k].index # Welds[i].index
          /\ Welds[k].grown = 1
          /\ Welds[k].index = Welds[k].size

\* the Meshes that getMesh(0 .. getNumberOfMeshes() - 1) returns
Meshes == [i \in 1..getNumberOfMeshes(model) |-> model.m_meshes[i]]

\* the triangles startIndex / 3 .. startIndex / 3 + triangleCount - 1 of a Mesh
TrianglesOf(mesh) ==
    {t \in 0..(getNumberOfTriangles(model) + mesh.triangleCount) :
        mesh.startIndex <= 3 * t /\ t < (mesh.startIndex \div 3) + mesh.triangleCount}

\* C6: after a successful import into a freshly constructed Model the ranges
\* of the Meshes partition the triangle list: they are pairwise disjoint,
\* their union is 0 .. getNumberOfTriangles() - 1, and every startIndex is a
\* multiple of 3.
C6_MeshesPartition ==
    (last.ret /\ last.fresh)
    => /\ \A i \in DOMAIN Meshes : Meshes[i].startIndex % 3 = 0
       /\ \A i, j \in DOMAIN Meshes :
             i # j => TrianglesOf(Meshes[i]) \cap TrianglesOf(Meshes[j]) = {}
       /\ UNION {TrianglesOf(Meshes[i]) : i \in DOMAIN Meshes}
             = 0..(getNumberOfTriangles(model) - 1)

\* a fresh import of four triangles in three runs of materials
C6_Witness ==
    /\ last.ret
    /\ last.fresh
    /\ getNumberOfTriangles(model) = 4
    /\ getNumberOfMeshes(model) = 3
    /\ \E i \in DOMAIN Meshes : Meshes[i].triangleCount = 2 /\ Meshes[i].startIndex = 6

\* the alpha of the Material a Mesh points to
AlphaOf(mesh) == Deref(model, mesh.pMaterial, last.g).alpha

\* C7: after a successful import the Mesh list is ordered by non-increasing
\* alpha of the Material each Mesh refers to.
C7_MeshesByAlpha ==
    last.ret
    => \A i, j \in DOMAIN Meshes :
          i < j => ~RLt(AlphaOf(Meshes[i]), AlphaOf(Meshes[j]))

\* an import whose Meshes the sort has reordered: the file's first run of
\* triangles, of the most transparent material, is the last Mesh
C7_Witness ==
    /\ last.ret
    /\ getNumberOfMeshes(model) = 3
    /\ Meshes[3].startIndex = 0
    /\ RLt(AlphaOf(Meshes[3]), AlphaOf(Meshes[2]))
    /\ RLt(AlphaOf(Meshes[2]), AlphaOf(Meshes[1]))

\* 1e-5, the tolerance of the comparisons of floats
Tolerance == Rat(1, 100000)

Near(a, b) == IsFinite(a) /\ IsFinite(b) /\ ~RGt(RAbs(RSub(a, b)), Tolerance)

\* C8: for an imported model with a non-empty vertex buffer,
\* normalize(1.0, true) leaves getRadius() equal to 1.0 and getCenter() equal
\* to (0, 0, 0), within the tolerance, wherever the coordinates lie.
C8_NormalizeUnit ==
    [][(last.ret /\ getNumberOfVertices(model) > 0 /\ NormalizeCall(One, TRUE))
       => /\ Near(model'.m_radius, One)
          /\ \A k \in 1..3 : Near(model'.m_center[k], Zero)]_vars

\* C9: after generateNormals has run every vertex of the vertex buffer has a
\* normal of length one, whatever triangles the importer has produced.
C9_UnitNormals ==
    (last.ret /\ last.fresh /\ last.ranNormals)
    => \A i \in DOMAIN model.m_vertexBuffer : IsUnit(model.m_vertexBuffer[i].normal)

\* the triangles of the index buffer that have vertex v as a corner
TrianglesAt(v) ==
    {t \in 0..(getNumberOfTriangles(model) - 1) : \E k \in 1..3 : Triangle(model, t)[k] = v}

\* C10: a vertex whose triangles all take the fallback of generateTangents
\* (UV determinant below 1e-6 in magnitude) gets, after the Gram-Schmidt step
\* against its unit normal, a well-defined tangent of length one, whatever
\* the direction of the normal.
C10_FallbackTangent ==
    (last.ret /\ last.fresh /\ last.ranTangents)
    => \A i \in DOMAIN model.m_vertexBuffer :
          (/\ IsUnit(model.m_vertexBuffer[i].normal)
           /\ TrianglesAt(i - 1) # {}
           /\ \A t \in TrianglesAt(i - 1) :
                 RLt(RAbs(UVDet(model, Triangle(model, t))), Epsilon))
          => IsUnit(model.m_vertexBuffer[i].tangent)

\* a fresh import with a face that repeats a corner: generateNormals has run
\* and a vertex of that face has a normal that is not a number
C9_Witness ==
    /\ last.ret /\ last.fresh /\ last.ranNormals
    /\ \E f \in DOMAIN last.faces : last.faces[f].arg[1] = last.faces[f].arg[2]
    /\ \E i \in DOMAIN model.m_vertexBuffer : model.m_vertexBuffer[i].normal = NaNDir

\* a fresh import after which generateTangents has run on faces without
\* texture coordinates: a vertex with a unit normal along the x axis has a
\* tangent that is not a number
C10_Witness ==
    /\ last.ret /\ last.fresh /\ last.ranTangents
    /\ \A f \in DOMAIN last.faces : FaceForm(last.faces[f].arg[1]) = "v"
    /\ \E i \in DOMAIN model.m_vertexBuffer :
          /\ IsUnit(model.m_vertexBuffer[i].normal)
          /\ model.m_vertexBuffer[i].normal.v[2] = Zero
          /\ model.m_vertexBuffer[i].normal.v[3] = Zero
          /\ model.m_vertexBuffer[i].tangent = NaNDir

\* whether the file names, by an mtllib line, a material file that fopen()
\* cannot open
UnopenedLibrary(file) ==
    \E i \in DOMAIN file.lines :
        file.lines[i].tok = "mtllib" /\ file.lines[i].arg \notin DOMAIN MtlFiles

\* C11: if the material file named by an mtllib line cannot be opened, import
\* fails: it returns false, and the Model is left as it was before the call
\* (no partial state is visible).
C11_LibraryFailure ==
    [][(imports' = imports + 1 /\ UnopenedLibrary(last'.file))
       => (~last'.ret /\ model' = model)]_vars

\* an import that has returned true on a file whose library does not open:
\* the geometry is loaded under the default material
C11_Witness ==
    /\ last.ret
    /\ UnopenedLibrary(last.file)
    /\ \E i \in DOMAIN last.libs : ~last.libs[i].ret
    /\ getNumberOfTriangles(model) = 2
    /\ model.m_materials = <<DefaultMaterial>>

\* C12: if the primary OBJ file cannot be opened, import returns false and
\* every field of the Model (flags, counts, bounds, directory path, buffers,
\* material table, meshes, caches) is as it was before the call.
C12_NoFileUnchanged ==
    [][(last.path # NoFile.path /\ last'.path = NoFile.path)
       => (~last'.ret /\ model' = model)]_vars

\* a failed import on a Model that holds an earlier import
C12_Witness ==
    /\ last.path = NoFile.path
    /\ ~last.ret
    /\ ~last.fresh
    /\ getNumberOfVertices(model) > 0
    /\ model.m_directoryPath = "models/"

\* whether the file declares no material: each library it names does not
\* open, or holds no newmtl line
DeclaresNoMaterials(file) ==
    \A i \in DOMAIN file.lines :
        file.lines[i].tok = "mtllib"
        => \/ file.lines[i].arg \notin DOMAIN MtlFiles
           \/ \A j \in DOMAIN MtlFiles[file.lines[i].arg] :
                 MtlFiles[file.lines[i].arg][j].tok # "newmtl"

\* C13: when the imported file declares no materials (no mtllib, an
\* unopenable mtllib, or a library without newmtl), the Material table after
\* import holds exactly one Material, named "default" with the default
\* colours, every triangle's material id is 0 and every Mesh references that
\* Material.
C13_DefaultMaterial ==
    (last.ret /\ DeclaresNoMaterials(last.file))
    => /\ model.m_materials = <<DefaultMaterial>>
       /\ \A t \in DOMAIN model.m_attributeBuffer : model.m_attributeBuffer[t] = 0
       /\ \A i \in DOMAIN Meshes : Meshes[i].pMaterial = MaterialPtr(0)

\* a fresh import of a file whose library holds no newmtl line: one default
\* Material, one Mesh on it
C13_Witness ==
    /\ last.ret
    /\ last.fresh
    /\ DeclaresNoMaterials(last.file)
    /\ \E i \in DOMAIN last.libs : last.libs[i].name = "void" /\ last.libs[i].ret
    /\ model.m_materials = <<DefaultMaterial>>
    /\ getNumberOfTriangles(model) = 1
    /\ getNumberOfMeshes(model) = 1
    /\ Meshes[1].pMaterial = MaterialPtr(0)

\* C14: a usemtl line whose name is not in the material lookup sets the
\* active material to index 0 and the import goes on without failure: it
\* returns true, every triangle the first pass has counted is added, and the
\* triangles added until the next usemtl line carry material id 0.
C14_UnknownMaterial ==
    (last.file # NoFile /\ ~last.fault)
    => /\ last.ret
       /\ Len(last.uses) = last.firstPassTriangles
       /\ Len(model.m_attributeBuffer) = Len(last.uses)
       /\ \A t \in DOMAIN last.uses :
             (last.uses[t].name # "" /\ ~last.uses[t].known)
             => model.m_attributeBuffer[t] = 0

\* an unknown name after a usemtl that had set material 1: the triangle before
\* carries 1, the two triangles after the unknown name carry 0
C14_Witness ==
    /\ last.ret
    /\ Len(last.uses) = 3
    /\ last.uses[1].known /\ model.m_attributeBuffer[1] = 1
    /\ last.uses[2].name = "nosuch" /\ ~last.uses[2].known
    /\ last.uses[3] = last.uses[2]
    /\ model.m_attributeBuffer[2] = 0 /\ model.m_attributeBuffer[3] = 0

\* C15: in every state in which a Mesh is reachable through a Model (the
\* Model import() has run on, and the copies of imported Models that
\* LoadModel has pushed onto the list), the Mesh's material reference
\* designates a live element of that Model's own Material table.
C15_MaterialsLive ==
    /\ \A i \in 1..getNumberOfMeshes(model) : IsLive(model, model.m_meshes[i].pMaterial)
    /\ \A k \in DOMAIN models :
          \A i \in 1..getNumberOfMeshes(models[k]) :
              LiveIn(k, models[k].m_meshes[i].pMaterial)

\* two Models on the list, the second with three Meshes and three Materials:
\* its Meshes hold addresses of the table of LoadModel's local Model
C15_Witness ==
    /\ Len(models) = 2
    /\ getNumberOfMeshes(models[2]) = 3
    /\ Len(models[2].m_materials) = 3
    /\ \A i \in 1..3 : models[2].m_meshes[i].pMaterial < TableAt(1)

\* the line of the file that holds its i-th face
NthFace(file, i) ==
    CHOOSE n \in DOMAIN file.lines :
        /\ file.lines[n].tok = "f"
        /\ Cardinality({m \in 1..(n - 1) : file.lines[m].tok = "f"}) = i - 1

\* the lines of kind t before line n
CountBefore(file, n, t) == Cardinality({m \in 1..(n - 1) : file.lines[m].tok = t})

\* the corner c of the face on line n, its references resolved against the
\* elements the file holds before that line
ResolvedAt(file, n, c) ==
    <<Resolve(c[1], CountBefore(file, n, "v")),
      Resolve(c[2], CountBefore(file, n, "vt")),
      Resolve(c[3], CountBefore(file, n, "vn"))>>

\* the triangles of the faces before the i-th, k - 2 for a face of k corners
RECURSIVE TrianglesBefore(_, _)
TrianglesBefore(faces, i) ==
    IF i = 1 THEN 0 ELSE TrianglesBefore(faces, i - 1) + Len(faces[i - 1].arg) - 2

\* C16: a face with corners c0 .. c(k-1), k >= 3, is added by the second pass
\* as the triangles (c0, c(j), c(j+1)), j = 1 .. k-2, in that order, in
\* consecutive triangle slots, the first corner being the anchor of each; the
\* quad f 1 2 3 4 on distinct positions gives the index buffer 0 1 2 0 2 3.
C16_FanOrder ==
    last.ret
    => /\ \A i \in DOMAIN last.faces :
             \A j \in 1..(Len(last.faces[i].arg) - 2) :
                 /\ TrianglesBefore(last.faces, i) + j \in DOMAIN last.triangles
                 /\ last.triangles[TrianglesBefore(last.faces, i) + j]
                      = <<ResolvedAt(last.file, NthFace(last.file, i), last.faces[i].arg[1]),
                          ResolvedAt(last.file, NthFace(last.file, i), last.faces[i].arg[j + 1]),
                          ResolvedAt(last.file, NthFace(last.file, i), last.faces[i].arg[j + 2])>>
       /\ (last.fresh /\ last.file = ObjFile("pos.obj", TabPos, <<FP(<<1, 2, 3, 4>>)>>))
          => [k \in DOMAIN last.welds |-> last.welds[k].index] = <<0, 1, 2, 0, 2, 3>>

\* the quad f 1 2 3 4 imported into a fresh Model: the triangles (c0, c1, c2)
\* and (c0, c2, c3), the index buffer 0 1 2 0 2 3
C16_Witness ==
    /\ last.ret
    /\ last.fresh
    /\ last.file = ObjFile("pos.obj", TabPos, <<FP(<<1, 2, 3, 4>>)>>)
    /\ last.triangles = << << <<0, -1, -1>>, <<1, -1, -1>>, <<2, -1, -1>> >>,
                           << <<0, -1, -1>>, <<2, -1, -1>>, <<3, -1, -1>> >> >>
    /\ model.m_indexBuffer = <<0, 1, 2, 0, 2, 3>>

\* the triangles (from 1) at which a maximal run of equal material ids starts
RunStarts(attr) == {i \in DOMAIN attr : i = 1 \/ attr[i] # attr[i - 1]}

\* the length of the run that starts at triangle i
RunLength(attr, i) ==
    Min({j \in (i + 1)..(Len(attr) + 1) : j = Len(attr) + 1 \/ attr[j] # attr[i]}) - i

\* the Meshes that hold exactly the run starting at triangle i
MeshesOfRun(i) ==
    {k \in DOMAIN Meshes :
        /\ Meshes[k].startIndex = 3 * (i - 1)
        /\ Meshes[k].triangleCount = RunLength(model.m_attributeBuffer, i)}

\* C17: buildMeshes makes exactly one Mesh per maximal contiguous run of
\* equal material ids of the attribute buffer: as many Meshes as there are
\* triangles whose id differs from the id before (the first included), each
\* with startIndex = 3 * runStart and triangleCount = run length; two runs of
\* the same material that are not adjacent stay two Meshes.
C17_MeshPerRun ==
    last.ret
    => /\ getNumberOfMeshes(model) = Cardinality(RunStarts(model.m_attributeBuffer))
       /\ Len(model.m_meshes) = getNumberOfMeshes(model)
       /\ \A i \in RunStarts(model.m_attributeBuffer) : Cardinality(MeshesOfRun(i)) = 1

\* a fresh import with the runs red, glass, red: three Meshes, two of them on
\* one Material, the last run of two triangles
C17_Witness ==
    /\ last.ret
    /\ last.fresh
    /\ model.m_attributeBuffer = <<0, 1, 0, 0>>
    /\ getNumberOfMeshes(model) = 3
    /\ \A i \in {1, 2, 3} : Cardinality(MeshesOfRun(i)) = 1
    /\ \E j, k \in DOMAIN Meshes : j # k /\ Meshes[j].pMaterial = Meshes[k].pMaterial

\* C18: importMaterials returns false only when the file cannot be opened;
\* for every material file that opens, whatever the order of its directives
\* (Ka, Kd, Ks, Ns, d, Tr, illum, map_Kd, map_bump before the first newmtl
\* included), it runs to its end without fault and returns true.
C18_LibrariesLoad ==
    \A i \in DOMAIN last.libs :
        /\ last.libs[i].ret = (last.libs[i].name \in DOMAIN MtlFiles)
        /\ ~last.libs[i].fault

\* an import whose library has a Kd line before its first newmtl line: the
\* store through the null pMaterial
C18_Witness ==
    /\ last.fault
    /\ ~last.ret
    /\ \E i \in DOMAIN last.libs :
          /\ last.libs[i].name = "early"
          /\ last.libs[i].fault
          /\ MtlFiles[last.libs[i].name][1].tok = "Kd"

\* C19: after a successful import every entry of the per-triangle material id
\* buffer is a valid index into the Material table (0 <= id < the number of
\* Materials in the table), so buildMeshes references no Material outside the
\* table; for any number of mtllib lines, a later library with fewer materials
\* than an earlier one included.
C19_MaterialIdsValid ==
    last.ret
    => /\ \A t \in DOMAIN model.m_attributeBuffer :
             /\ 0 <= model.m_attributeBuffer[t]
             /\ model.m_attributeBuffer[t] < Len(model.m_materials)
       /\ \A i \in DOMAIN Meshes : IsLive(model, Meshes[i].pMaterial)

\* a file that names a library of three materials and then a library of one,
\* and uses a name of the first: the id 1 against a table of one Material
C19_Witness ==
    /\ last.ret
    /\ last.fresh
    /\ Len(last.libs) = 2
    /\ \A i \in DOMAIN last.libs : last.libs[i].ret
    /\ Len(model.m_materials) = 1
    /\ model.m_attributeBuffer = <<0, 1>>
    /\ \E i \in DOMAIN Meshes : ~IsLive(model, Meshes[i].pMaterial)

\* what the claim observes of a Model: the number of vertices, the index
\* buffer, the (startIndex, triangleCount) pairs of the Meshes, hasTangents
Observable(m) ==
    [vertices |-> getNumberOfVertices(m),
     indices |-> m.m_indexBuffer,
     meshes |-> [i \in 1..getNumberOfMeshes(m) |->
                    <<m.m_meshes[i].startIndex, m.m_meshes[i].triangleCount>>],
     hasTangents |-> m.m_hasTangents]

\* the sum of the triangleCount of the first n Meshes
RECURSIVE SumCounts(_, _)
SumCounts(m, n) ==
    IF n = 0 THEN 0 ELSE SumCounts(m, n - 1) + m.m_meshes[n].triangleCount

\* the Model that importing the file of the last import into a freshly
\* constructed Model gives
FreshImport(l) == import(Model, l.file, FALSE, l.g).m

\* C20: import on a Model that already holds a successful import (no
\* destroy() in between) leaves the Model in the same observable state as
\* importing the same file into a freshly constructed Model: same vertex
\* count, same index buffer, same Mesh (startIndex, triangleCount) pairs,
\* whose triangle counts sum to getNumberOfTriangles(), same hasTangents.
C20_ReimportAsFresh ==
    [][(imports' = imports + 1 /\ last'.ret /\ ~last'.fresh)
       => /\ Observable(model') = Observable(FreshImport(last'))
          /\ SumCounts(model', getNumberOfMeshes(model')) = getNumberOfTriangles(model')]_vars

\* a second import of a triangle: more vertices than the fresh import has,
\* and a Mesh that counts more triangles than the Model holds
C20_Witness ==
    /\ last.ret
    /\ ~last.fresh
    /\ imports = 2
    /\ getNumberOfTriangles(model) = 1
    /\ getNumberOfVertices(model) > getNumberOfVertices(FreshImport(last))
    /\ SumCounts(model, getNumberOfMeshes(model)) > getNumberOfTriangles(model)

(***************************** the bounds *********************************)
\* the positions of the vertex buffer on one axis
Coordinates(m, axis) ==
    {m.m_vertexBuffer[i].position[axis] : i \in 1..Len(m.m_vertexBuffer)}

\* the largest and the smallest of a non-empty set of finite floats
Largest(S) == CHOOSE x \in S : \A y \in S : ~RGt(y, x)
Smallest(S) == CHOOSE x \in S : \A y \in S : ~RLt(y, x)

FinitePositions(m) ==
    \A i \in 1..Len(m.m_vertexBuffer) : VFinite(m.m_vertexBuffer[i].position)

\* the extent of the vertex positions on one axis
Extent(m, axis) == RSub(Largest(Coordinates(m, axis)), Smallest(Coordinates(m, axis)))

\* C21: for a non-empty vertex buffer bounds computes on each axis the true
\* minimum and maximum of the vertex positions: center is their midpoint,
\* width, height and length are max - min, radius is the largest of the three
\* extents, whatever the sign of the coordinates.
C21_TrueBounds ==
    (getNumberOfVertices(model) > 0 /\ FinitePositions(model))
    => LET b == bounds(model)
       IN  /\ \A axis \in 1..3 :
                b.center[axis] = Half(RAdd(Smallest(Coordinates(model, axis)),
                                           Largest(Coordinates(model, axis))))
           /\ b.width = Extent(model, 1)
           /\ b.height = Extent(model, 2)
           /\ b.length = Extent(model, 3)
           /\ b.radius = RMax(RMax(Extent(model, 1), Extent(model, 2)), Extent(model, 3))

\* a vertex buffer with negative coordinates whose bounds are the true ones:
\* on each axis the largest coordinate is not below 0
C21_Witness ==
    /\ getNumberOfVertices(model) > 0
    /\ FinitePositions(model)
    /\ \E axis \in 1..3 : RLt(Smallest(Coordinates(model, axis)), Zero)
    /\ bounds(model).width = Extent(model, 1)
    /\ bounds(model).height = Extent(model, 2)
    /\ bounds(model).length = Extent(model, 3)
    /\ model.m_radius = bounds(model).radius

\* C22: after a successful import getNumberOfMaterials() is the number of
\* Materials in the Material table, and the Material of every Mesh is
\* getMaterial(i) for some i < getNumberOfMaterials(); also when the default
\* Material has been synthesized.
C22_MaterialCount ==
    last.ret
    => /\ getNumberOfMaterials(model) = Len(model.m_materials)
       /\ \A k \in 1..getNumberOfMeshes(model) :
             \E i \in 0..(getNumberOfMaterials(model) - 1) :
                model.m_meshes[k].pMaterial = MaterialPtr(i)

\* an import from a file with a library: the count is the length of the
\* table and the Meshes point to Materials below the count
C22_Witness ==
    /\ last.ret
    /\ LinesOf(last.file, "mtllib") # <<>>
    /\ getNumberOfMaterials(model) = Len(model.m_materials)
    /\ getNumberOfMaterials(model) > 1
    /\ getNumberOfMeshes(model) > 1
    /\ \A k \in 1..getNumberOfMeshes(model) :
          \E i \in 0..(getNumberOfMaterials(model) - 1) :
             model.m_meshes[k].pMaterial = MaterialPtr(i)

(************************* the material files *****************************)
\* the directives of a material file that the specification gives a meaning
Directives == {"newmtl", "Ka", "Kd", "Ks", "Ns", "d", "Tr", "illum", "map_Kd", "map_bump"}

\* C23: a line of a material file whose directive is none of newmtl, Ka, Kd,
\* Ks, Ns, d, Tr, illum, map_Kd, map_bump is skipped: it leaves every field
\* of every Material as it was.
C23_UnknownDirectiveSkipped ==
    \A i \in DOMAIN last.libs :
        \A n \in DOMAIN last.libs[i].steps :
            last.libs[i].steps[n].tok \notin Directives => last.libs[i].steps[n].kept

\* an import has loaded the library with the Ke, map_Ka and disp lines under
\* its first material, and these lines have left the table as it was
C23_Witness ==
    /\ last.ret
    /\ \E i \in DOMAIN last.libs :
          /\ last.libs[i].name = "extra"
          /\ \A t \in {"Ke", "map_Ka", "disp"} :
                \E n \in DOMAIN last.libs[i].steps :
                   /\ n > 1
                   /\ last.libs[i].steps[n].tok = t
                   /\ last.libs[i].steps[n].kept
    /\ \E k \in DOMAIN model.m_materials : model.m_materials[k].name = "dull"

\* the index in the Material table of the Material that line n of a material
\* file belongs to: the number of newmtl lines up to line n, less one
MaterialOfLine(lines, n) ==
    Cardinality({k \in 1..n : lines[k].tok = "newmtl"}) - 1

\* the Materials of a material file whose definition holds the line illum 1
IllumOne(lines) ==
    {MaterialOfLine(lines, n) :
        n \in {k \in DOMAIN lines : lines[k].tok = "illum" /\ lines[k].arg = 1}}

\* the one library of the file of the last import, if the file names exactly
\* one and it opens
OneLibrary ==
    /\ last.ret
    /\ Len(last.libs) = 1
    /\ last.libs[1].ret

\* C24: for a Material whose definition contains illum 1 the specular color
\* stored after the material file is loaded is (0,0,0,1), wherever the illum
\* line stands relative to a Ks line of the same Material.
C24_IllumOne ==
    OneLibrary
    => \A i \in IllumOne(MtlFiles[last.libs[1].name]) :
          model.m_materials[i + 1].specular = <<Zero, Zero, Zero, One>>

\* a Material with Ks (1,1,1) and then illum 1 has been loaded, and its
\* specular color is (0,0,0,1)
C24_Witness ==
    /\ OneLibrary
    /\ last.libs[1].name = "extra"
    /\ \E n \in DOMAIN ExtraMtl :
          /\ ExtraMtl[n].tok = "Ks"
          /\ ExtraMtl[n + 1].tok = "illum" /\ ExtraMtl[n + 1].arg = 1
          /\ ExtraMtl[n].arg # Zero3
          /\ model.m_materials[MaterialOfLine(ExtraMtl, n) + 1].specular
                = <<Zero, Zero, Zero, One>>

(************************ normals and tangents ****************************)
\* C25: within import generateNormals is executed if and only if
\* rebuildNormals is true or the file holds no vn line; when the file holds
\* vn lines and rebuildNormals is false, the vertex normals after import are
\* exactly the values welded in the second pass.
C25_NormalsKept ==
    [][(imports' = imports + 1 /\ last'.ret)
       => /\ last'.ranNormals
                <=> (last'.rebuildNormals \/ LinesOf(last'.file, "vn") = <<>>)
          /\ (LinesOf(last'.file, "vn") # <<>> /\ ~last'.rebuildNormals)
             => /\ NormalsOf(model') = last'.secondPassNormals
                /\ \A n \in DOMAIN last'.welds :
                      model'.m_vertexBuffer[last'.welds[n].index + 1].normal
                         = last'.welds[n].vertex.normal]_vars

\* an import with rebuildNormals false of a file whose faces name normals:
\* generateNormals has not run and a vertex holds the normal of its vn line
C25_Witness ==
    /\ last.ret
    /\ imports = 1 /\ normalized = 0
    /\ ~last.rebuildNormals
    /\ ~last.ranNormals
    /\ last.secondPassNormals = NormalsOf(model)
    /\ \E i \in DOMAIN model.m_vertexBuffer :
          model.m_vertexBuffer[i].normal = PlainDir(Vec3(0, 1, 0))

\* C26: after a successful import into a freshly constructed Model
\* hasTangents() is true if and only if at least one Material of the Material
\* table has a non-empty bump-map path; generateTangents is executed at most
\* once per import, and only after the normals are final.
C26_TangentsOnBump ==
    [][(imports' = imports + 1 /\ last'.ret /\ last'.fresh)
       => /\ model'.m_hasTangents
                <=> (\E k \in DOMAIN model'.m_materials :
                        model'.m_materials[k].bumpMapFilename # "")
          /\ model'.m_hasTangents <=> last'.ranTangents
          /\ last'.tangentCalls <= 1
          /\ last'.ranTangents => last'.tangentNormals = NormalsOf(model')]_vars

\* a first import of a file whose library has a material with a bump map:
\* the normals have been generated, then the tangents, once
C26_Witness ==
    /\ last.ret /\ last.fresh
    /\ imports = 1 /\ normalized = 0
    /\ model.m_hasTangents
    /\ last.ranNormals
    /\ last.tangentCalls = 1
    /\ last.tangentNormals = NormalsOf(model)
    /\ \E k \in DOMAIN model.m_materials : model.m_materials[k].bumpMapFilename = "bump.png"
    /\ \E k \in DOMAIN model.m_materials : model.m_materials[k].bumpMapFilename = ""

(*************************** the buffer sizes *****************************)
\* the buffers that the first pass resizes
SizedBuffers == {"index", "attribute", "positions", "texCoords", "normals"}

\* every store of the second pass falls inside the buffer it goes to
WritesInside ==
    \A n \in DOMAIN last.writes :
        /\ last.writes[n].buf \in SizedBuffers
        /\ 0 <= last.writes[n].at
        /\ last.writes[n].at + last.writes[n].n <= last.writes[n].len
        /\ last.writes[n].len = last.firstPassSizes[last.writes[n].buf]

ValidInput == last.ret /\ \A n \in DOMAIN last.faces : ValidFace(last.faces[n])

\* C27: all Model buffers have their final sizes when the second pass starts:
\* from the end of importGeometryFirstPass to the end of
\* importGeometrySecondPass the lengths of the index buffer, the attribute
\* buffer, the position, texcoord and normal scratch arrays and the vertex
\* buffer do not change, and every write of the second pass for a valid input
\* falls inside those lengths.
C27_FinalSizes ==
    ValidInput
    => /\ last.secondPassSizes = last.firstPassSizes
       /\ WritesInside

\* C27 as amended: the index buffer, the attribute buffer and the three
\* scratch arrays keep through the second pass the lengths the first pass
\* gave them, and every write of the second pass into them falls inside
\* those lengths; the vertex buffer is not sized by the first pass and grows
\* in the second by one entry for each addVertex call that finds no match,
\* the entries it holds staying as they are.
C27_SizedBuffers ==
    ValidInput
    => /\ \A b \in SizedBuffers : last.secondPassSizes[b] = last.firstPassSizes[b]
       /\ WritesInside
       /\ \A n \in DOMAIN last.welds :
             /\ last.welds[n].grown \in {0, 1}
             /\ last.welds[n].kept
             /\ last.welds[n].size = IF n = 1 THEN last.firstPassSizes.vertices
                                     ELSE last.welds[n - 1].size + last.welds[n - 1].grown
       /\ last.welds # <<>>
          => last.secondPassSizes.vertices
                = last.welds[Len(last.welds)].size + last.welds[Len(last.welds)].grown

\* an import of a file with positions, texture coordinates, normals and
\* faces: the second pass has written into all five sized buffers and has
\* grown the vertex buffer
C27_Witness ==
    /\ ValidInput
    /\ \A b \in SizedBuffers : \E n \in DOMAIN last.writes : last.writes[n].buf = b
    /\ \A b \in SizedBuffers : last.firstPassSizes[b] > 0
    /\ last.secondPassSizes.vertices > last.firstPassSizes.vertices
    /\ \E n \in DOMAIN last.welds : last.welds[n].grown = 0

(************************* the order of the vertices **********************)
\* the largest vertex index among the first n entries of the index buffer,
\* 0 - 1 if there is none
LargestBefore(ib, n) ==
    IF n = 1 THEN -1
    ELSE CHOOSE x \in {ib[k] : k \in 1..(n - 1)} : \A k \in 1..(n - 1) : ib[k] <= x

\* C28: after a successful import into a freshly constructed Model every
\* entry of the vertex buffer is referenced by at least one entry of the
\* index buffer, and the vertex indices are issued in the order of first use:
\* each value of the index buffer is one already seen or exactly one more
\* than the largest seen so far, from 0 on.  Hence getNumberOfVertices() <=
\* 3 * getNumberOfTriangles().
C28_FirstUseOrder ==
    [][(imports' = imports + 1 /\ last'.ret /\ last'.fresh)
       => LET ib == model'.m_indexBuffer
          IN  /\ \A i \in 0..(getNumberOfVertices(model') - 1) :
                    \E n \in DOMAIN ib : ib[n] = i
              /\ \A n \in DOMAIN ib :
                    0 <= ib[n] /\ ib[n] <= LargestBefore(ib, n) + 1
              /\ getNumberOfVertices(model') <= 3 * getNumberOfTriangles(model')]_vars

\* a first import of a quad: the two triangles share two vertices, the index
\* buffer reads 0 1 2 0 2 3 over four vertices
C28_Witness ==
    /\ last.ret /\ last.fresh
    /\ model.m_indexBuffer = <<0, 1, 2, 0, 2, 3>>
    /\ getNumberOfVertices(model) = 4
    /\ getNumberOfTriangles(model) = 2
    /\ Len(last.welds) = 6

(****************************** normalize *********************************)
\* the Model without what normalize is to change: the positions of the
\* vertices and the stored bounds
Frame(m) ==
    [m EXCEPT !.m_center = Zero3, !.m_width = Zero, !.m_height = Zero,
              !.m_length = Zero, !.m_radius = Zero,
              !.m_vertexBuffer = [i \in 1..Len(@) |-> [@[i] EXCEPT !.position = Zero3]]]

\* C29: normalize changes only the vertex positions and the stored bounds
\* (center, width, height, length, radius): the index buffer, the attribute
\* buffer, the Mesh list, the Material table, the number of vertices and the
\* texcoord, normal, tangent and bitangent of every vertex stay as they are.
C29_NormalizeFrame ==
    [][(normalized' = normalized + 1)
       => /\ Frame(model') = Frame(model)
          /\ model'.m_indexBuffer = model.m_indexBuffer
          /\ model'.m_attributeBuffer = model.m_attributeBuffer
          /\ model'.m_meshes = model.m_meshes
          /\ model'.m_materials = model.m_materials
          /\ getNumberOfVertices(model') = getNumberOfVertices(model)
          /\ \A i \in DOMAIN model.m_vertexBuffer :
                /\ model'.m_vertexBuffer[i].texCoord = model.m_vertexBuffer[i].texCoord
                /\ model'.m_vertexBuffer[i].normal = model.m_vertexBuffer[i].normal
                /\ model'.m_vertexBuffer[i].tangent = model.m_vertexBuffer[i].tangent
                /\ model'.m_vertexBuffer[i].bitangent = model.m_vertexBuffer[i].bitangent]_vars

\* normalize has run on an imported model with tangents: the radius it has
\* stored is not the radius import has stored, the positions are scaled
C29_Witness ==
    /\ last.ret
    /\ normalized = 1
    /\ model.m_hasTangents
    /\ getNumberOfVertices(model) > 0
    /\ model.m_radius = One
    /\ \A i \in DOMAIN model.m_vertexBuffer :
          \A k \in 1..3 : ~RGt(RAbs(model.m_vertexBuffer[i].position[k]), One)
    /\ \E i \in DOMAIN model.m_vertexBuffer : IsUnit(model.m_vertexBuffer[i].normal)

(**************************** unloading ***********************************)
\* C30: in the viewer, after UnloadModel returns (File > Close, the unload
\* that precedes File > Open, the cleanup) no model remains loaded: the list
\* models is empty and every stored Model has been destroyed, so that a
\* following LoadModel leaves exactly one model loaded and drawn.
C30_UnloadEmpties ==
    [][/\ windowText' = NoCaption => models' = <<>>
       /\ (windowText = NoCaption /\ windowText' # NoCaption) => Len(models') = 1]_vars

\* UnloadModel has returned on a list that holds the one Model loaded before
C30_Witness ==
    /\ windowText = NoCaption
    /\ last.ret
    /\ Len(models) = 1
    /\ getNumberOfVertices(models[1]) > 0

====
